---- MODULE Spec2Model ----
(***************************************************************************)
(* Model of the feed-harvesting engine of SenseMaker                       *)
(* (src/modules/scraper.py).  One run of scrape_group is a state machine   *)
(* whose steps are the awaited calls on the rendering surface; every such  *)
(* call may raise.                                                         *)
(*                                                                         *)
(* Strings are sequences of tokens (TLA+ strings used as characters or as  *)
(* indivisible words).  A URL string is kept split in the five parts that  *)
(* urlparse returns; its query is a token sequence that parse_qs splits.   *)
(***************************************************************************)
EXTENDS Integers, Sequences, FiniteSets, TLC

Max(a, b) == IF a >= b THEN a ELSE b
Min(a, b) == IF a <= b THEN a ELSE b

Rep(c, n) == [i \in 1..n |-> c]

\* Op applied to the value of v, v being evaluated once.
Bind(v, Op(_)) == CHOOSE r \in {Op(x) : x \in {v}} : TRUE

Whitespace == {" ", "\n"}

RECURSIVE LStrip(_)
LStrip(s) == IF s # <<>> /\ Head(s) \in Whitespace THEN LStrip(Tail(s)) ELSE s

\* str.rstrip(chars)
RECURSIVE RStrip(_, _)
RStrip(s, chars) ==
    IF s # <<>> /\ s[Len(s)] \in chars
    THEN RStrip(SubSeq(s, 1, Len(s) - 1), chars) ELSE s

\* str.strip()
Strip(s) == RStrip(LStrip(s), Whitespace)

\* a in b, for strings
IsSubstring(a, b) ==
    \E i \in 0..(Len(b) - Len(a)) : SubSeq(b, i + 1, i + Len(a)) = a

---------------------------------------------------------------------------
(* URLs *)

MkUrl(scheme, netloc, path, query, fragment) ==
    [scheme |-> scheme, netloc |-> netloc, path |-> path,
     query |-> query, fragment |-> fragment]

\* urljoin(base_url, raw_url) followed by urlparse: a raw link without a
\* scheme is an absolute-path reference and takes scheme and host of the base.
UrlJoin(base, raw) ==
    IF raw.scheme = "" THEN [raw EXCEPT !.scheme = base.scheme, !.netloc = base.netloc]
    ELSE raw

\* str.split(sep) on a token sequence
RECURSIVE SplitOn(_, _)
SplitOn(s, sep) ==
    IF \A i \in 1..Len(s) : s[i] # sep THEN <<s>>
    ELSE LET k == CHOOSE i \in 1..Len(s) : s[i] = sep /\ \A j \in 1..(i - 1) : s[j] # sep
         IN  <<SubSeq(s, 1, k - 1)>> \o SplitOn(SubSeq(s, k + 1, Len(s)), sep)

\* urllib.parse.unquote (with '+' read as a space), one token at a time
Unquote(tok) ==
    CASE tok = "%26" -> "&"
      [] tok = "%3D" -> "="
      [] tok = "%25" -> "%"
      [] tok = "+"   -> " "
      [] OTHER       -> tok

UnquoteAll(s) == [i \in 1..Len(s) |-> Unquote(s[i])]

\* One name=value field of a query: <<name, value>>, split at the first '='.
QueryField(f) ==
    IF \E i \in 1..Len(f) : f[i] = "="
    THEN LET k == CHOOSE i \in 1..Len(f) : f[i] = "=" /\ \A j \in 1..(i - 1) : f[j] # "="
         IN  <<UnquoteAll(SubSeq(f, 1, k - 1)), UnquoteAll(SubSeq(f, k + 1, Len(f)))>>
    ELSE <<UnquoteAll(f), <<>>>>

\* parse_qs(query): the fields with a non-blank value, in order of appearance.
ParseQs(q) ==
    LET fields == IF q = <<>> THEN <<>> ELSE SplitOn(q, "&")
        pairs  == [i \in 1..Len(fields) |-> QueryField(fields[i])]
    IN  SelectSeq(pairs, LAMBDA p : p[1] # <<>> /\ p[2] # <<>>)

\* query[key]: the list of values parse_qs collected for key
QueryValues(pairs, key) ==
    LET hits == SelectSeq(pairs, LAMBDA p : p[1] = <<key>>)
    IN  [i \in 1..Len(hits) |-> hits[i][2]]

\* sorted(allowed_keys)
AllowedKeysSorted == <<"fbid", "id", "story_fbid">>

RECURSIVE JoinAmp(_)
JoinAmp(parts) ==
    IF parts = <<>> THEN <<>>
    ELSE IF Len(parts) = 1 THEN parts[1]
    ELSE parts[1] \o <<"&">> \o JoinAmp(Tail(parts))

\* lines 55-57: kept and clean_query
CleanQuery(pairs) ==
    LET present == SelectSeq(AllowedKeysSorted, LAMBDA k : QueryValues(pairs, k) # <<>>)
    IN  JoinAmp([i \in 1..Len(present) |->
                    <<present[i], "=">> \o QueryValues(pairs, present[i])[1]])

_normalize_facebook_url(raw_url, base_url) ==
    LET absolute    == UrlJoin(base_url, raw_url)
        query       == ParseQs(absolute.query)
        clean_query == CleanQuery(query)
        path        == RStrip(absolute.path, {"/"})
    IN  MkUrl(absolute.scheme, absolute.netloc, path, clean_query, <<>>)

\* lines 60-62: the string that is returned
FormatUrl(u) ==
    <<u.scheme, "://", u.netloc>> \o u.path
        \o (IF u.query # <<>> THEN <<"?">> \o u.query ELSE <<>>)

\* The characters of a string read again: a '%' followed by two hex digits
\* is one escape.
RECURSIVE Relex(_)
Relex(s) ==
    IF s = <<>> THEN <<>>
    ELSE IF Len(s) >= 3 /\ s[1] = "%" /\ <<s[2], s[3]>> = <<"2", "6">>
    THEN <<"%26">> \o Relex(SubSeq(s, 4, Len(s)))
    ELSE IF Len(s) >= 3 /\ s[1] = "%" /\ <<s[2], s[3]>> = <<"3", "D">>
    THEN <<"%3D">> \o Relex(SubSeq(s, 4, Len(s)))
    ELSE IF Len(s) >= 3 /\ s[1] = "%" /\ <<s[2], s[3]>> = <<"2", "5">>
    THEN <<"%25">> \o Relex(SubSeq(s, 4, Len(s)))
    ELSE <<Head(s)>> \o Relex(Tail(s))

\* urlparse of an absolute URL string: scheme, host, then the path up to
\* the first '?' or '#', the query up to the first '#', the fragment.
ParseUrl(s) ==
    LET rest  == SubSeq(s, 4, Len(s))
        parts == SplitOn(rest, "#")
        front == SplitOn(parts[1], "?")
        query == IF Len(front) = 1 THEN <<>>
                 ELSE SubSeq(parts[1], Len(front[1]) + 2, Len(parts[1]))
    IN  MkUrl(s[1], s[3], front[1], Relex(query),
              IF Len(parts) = 1 THEN <<>> ELSE SubSeq(rest, Len(parts[1]) + 2, Len(rest)))

\* base_url.rstrip('/'), on the string the parts spell
UrlRStripSlash(u) ==
    IF u.fragment # <<>> THEN [u EXCEPT !.fragment = RStrip(@, {"/"})]
    ELSE IF u.query # <<>> THEN [u EXCEPT !.query = RStrip(@, {"/"})]
    ELSE [u EXCEPT !.path = RStrip(@, {"/"})]

\* Mutant: the base keeps its trailing slash.
FallbackContentUrlKeepsSlash(base_url, raw_text, index) ==
    LET seed == <<base_url, Strip(raw_text), index>>
    IN  [base_url EXCEPT !.fragment = @ \o <<"#content-", seed>>]

\* Mutant: the index is left out of the seed.
FallbackContentUrlNoIndex(base_url, raw_text, index) ==
    LET seed == <<base_url, Strip(raw_text), 0>>
    IN  [UrlRStripSlash(base_url) EXCEPT !.fragment = @ \o <<"#content-", seed>>]

\* md5(seed)[:16]: the digest is kept as the seed it was computed from
\* (distinct seeds give distinct digests).
_fallback_content_url(base_url, raw_text, index) ==
    LET seed == <<base_url, Strip(raw_text), index>>
    IN  [UrlRStripSlash(base_url) EXCEPT !.fragment = @ \o <<"#content-", seed>>]

---------------------------------------------------------------------------
(* The rendered page: a virtualized feed of which a window is in the DOM *)

\* Permalink patterns 1..8 of _extract_permalink; the page-wide link
\* selector of _collect_from_permalink_links is the first five of them.
PermalinkSelectors == 1..8
LinkSelector == 1..5

\* The three structural signatures of _harvest_visible_posts.
LocatorCandidates == 1..3

Anchor(sels, has_href, valid, href, text) ==
    [sels |-> sels, has_href |-> has_href, valid |-> valid, href |-> href, text |-> text]

Region(text, anchors, comment_nodes, sigs) ==
    [text |-> text, anchors |-> anchors, comment_nodes |-> comment_nodes, sigs |-> sigs]

TargetUrl == MkUrl("https", "fb.com", <<"/groups/42", "/">>, <<>>, <<>>)

TextA == Rep("a", 20)
TextB == <<" ">> \o Rep("b", 24) \o <<" ">>
TextC == Rep("c", 21)
TextShort == <<" ">> \o Rep("s", 19) \o <<" ">>

\* /groups/42/posts/7/?ref=feed&story_fbid=7 (relative, with a tracking parameter)
Link7Rel ==
    MkUrl("", "", <<"/groups/42", "/posts/7", "/">>,
          <<"ref", "=", "feed", "&", "story_fbid", "=", "7">>, <<>>)
\* https://fb.com/groups/42/posts/7?story_fbid=7#top
Link7Abs ==
    MkUrl("https", "fb.com", <<"/groups/42", "/posts/7">>,
          <<"story_fbid", "=", "7">>, <<"top">>)
\* /videos/9
Link9 == MkUrl("", "", <<"/videos/9">>, <<>>, <<>>)
NoUrl == MkUrl("", "", <<>>, <<>>, <<>>)

\* A post with a permalink, matched by the first signature; two comments,
\* one of them a repetition of the post body.
PostA ==
    Region(TextA,
           <<Anchor({8}, FALSE, TRUE, NoUrl, <<"g">>),
             Anchor({1, 8}, TRUE, TRUE, Link7Rel, <<"7">>)>>,
           <<<<Rep("a", 5), <<" ", "o", "k", "!">>>>, <<>>, <<>>, <<<<"o", "k", "!">>>>>>,
           {1})
\* A post without a permalink, matched by the first and the third signature.
PostB == Region(TextB, <<>>, <<<<>>, <<>>, <<>>, <<>>>>, {1, 3})
\* A noise node (text too short) that carries a video link.
NoiseLink ==
    Region(TextShort, <<Anchor({5}, TRUE, TRUE, Link9, <<>>)>>, <<<<>>, <<>>, <<>>, <<>>>>, {1})
\* Another rendering of post 7, with an absolute link, under the second signature.
PostC ==
    Region(TextC, <<Anchor({1}, TRUE, TRUE, Link7Abs, <<"7">>)>>,
           <<<<>>, <<<<"y", "e", "s">>>>, <<>>, <<>>>>, {2})
\* A noise node without links.
Noise == Region(<<"x">>, <<Anchor({1}, TRUE, FALSE, NoUrl, <<>>)>>, <<<<>>, <<>>, <<>>, <<>>>>, {1, 2})

Feed == <<Noise, PostA, PostB, NoiseLink, PostC>>

\* The window [lo, hi] of the feed that is rendered (empty when hi < lo).
Visible(w) == SubSeq(Feed, w.lo, w.hi)

\* page.locator(signature): the rendered regions that match it, in DOM order
Locate(w, sig) == SelectSeq(Visible(w), LAMBDA r : sig \in r.sigs)

RECURSIVE Flatten(_)
Flatten(ss) == IF ss = <<>> THEN <<>> ELSE Head(ss) \o Flatten(Tail(ss))

\* page.locator(link_selector): the matching anchors of the page, in DOM order
LocateLinks(w) ==
    LET vis == Visible(w)
        all == Flatten([i \in 1..Len(vis) |-> vis[i].anchors])
    IN  SelectSeq(all, LAMBDA a : a.sels \cap LinkSelector # {})

---------------------------------------------------------------------------
(* Extraction cascade *)

MIN_TEXT_LEN == 20
MAX_COMMENTS == 12
MAX_LINKS == 250

\* The anchors of a container in the order _extract_permalink visits them:
\* selector by selector, DOM order within a selector.
RECURSIVE PermalinkCandidates(_, _)
PermalinkCandidates(container, sel) ==
    IF sel > 8 THEN <<>>
    ELSE SelectSeq(container.anchors, LAMBDA a : sel \in a.sels)
         \o PermalinkCandidates(container, sel + 1)

\* _extract_permalink: <<found, url>>
_extract_permalink(container, base_url) ==
    LET usable == SelectSeq(PermalinkCandidates(container, 1),
                            LAMBDA a : a.has_href /\ a.valid)
    IN  IF usable = <<>> THEN <<FALSE, NoUrl>>
        ELSE <<TRUE, _normalize_facebook_url(usable[1].href, base_url)>>

RECURSIVE ScanComments(_, _, _, _)
ScanComments(nodes, raw_text, comments, max_comments) ==
    IF nodes = <<>> THEN comments
    ELSE LET text == Strip(Head(nodes))
             skip == \/ text = <<>>
                     \/ Len(text) < 3
                     \/ \E j \in 1..Len(comments) : comments[j] = text
                     \/ text = raw_text
                     \/ IsSubstring(text, raw_text)
         IN  IF skip THEN ScanComments(Tail(nodes), raw_text, comments, max_comments)
             ELSE IF Len(comments) + 1 >= max_comments THEN Append(comments, text)
             ELSE ScanComments(Tail(nodes), raw_text, Append(comments, text), max_comments)

\* Mutant: the texts are not compared with the text of the post.
ExtractCommentsKeepsBody(container, raw_text, max_comments) ==
    ScanComments(Flatten(container.comment_nodes), <<>>, <<>>, max_comments)

\* lines 123-150: the scan over the four comment selectors
_extract_comments(container, raw_text, max_comments) ==
    ScanComments(Flatten(container.comment_nodes), raw_text, <<>>, max_comments)

\* Mutant: the count is left at its initial value.
ContainerPayloadZeroCount(url, raw_text, comments) ==
    [url |-> url, raw_text |-> raw_text, comments |-> comments,
     comment_count |-> 0, source_type |-> "container_post"]

\* lines 223-230: the payload, then payload["comment_count"] = len(comments)
ContainerPayload(url, raw_text, comments) ==
    [url |-> url, raw_text |-> raw_text, comments |-> comments,
     comment_count |-> Len(comments), source_type |-> "container_post"]

\* Mutant: the ledger is never consulted.
InLedgerNever(url, seen_urls) == FALSE

\* if resolved_url in seen_urls: continue
InLedger(url, seen_urls) == url \in seen_urls

\* The awaited calls of one region's extraction that may raise.
Stages == {"inner_text", "permalink", "comments", "callback"}
NoFail == [loc |-> 0, idx |-> 0, stage |-> "none"]

\* One iteration of the loop of _collect_from_container_list, for the
\* container at index i (0-based).  st: the ledger, the local list, the
\* callback invocations so far, the records whose iteration ran to its end
\* (history), and whether an exception left the loop.
CollectOne(container, i, target_url, st, persist_cb, fail) ==
    LET here(stage) == fail.idx = i /\ fail.stage = stage
        raw_text  == Strip(container.text)
        permalink == _extract_permalink(container, target_url)
        resolved  == IF permalink[1] THEN permalink[2]
                     ELSE _fallback_content_url(target_url, raw_text, i)
        payload   == ContainerPayload(resolved, raw_text,
                                      _extract_comments(container, raw_text, MAX_COMMENTS))
        inserted  == [st EXCEPT !.seen_urls = @ \cup {resolved}]
        appended  == [inserted EXCEPT !.collected = Append(@, payload)]
        called    == IF persist_cb THEN [appended EXCEPT !.calls = Append(@, payload)]
                     ELSE appended
        finished  == [called EXCEPT !.completed = Append(@, payload)]
    IN  IF here("inner_text") THEN [st EXCEPT !.raised = TRUE]
        ELSE IF raw_text = <<>> \/ Len(raw_text) < MIN_TEXT_LEN THEN st
        ELSE IF here("permalink") THEN [st EXCEPT !.raised = TRUE]
        ELSE IF InLedger(resolved, st.seen_urls) THEN st
        ELSE IF here("comments") THEN [inserted EXCEPT !.raised = TRUE]
        ELSE IF persist_cb /\ here("callback") THEN [called EXCEPT !.raised = TRUE]
        ELSE finished

\* for i in range(count), from index i on
RECURSIVE CollectLoop(_, _, _, _, _, _)
CollectLoop(list, i, target_url, st, persist_cb, fail) ==
    IF i >= Len(list) \/ st.raised THEN st
    ELSE Bind(CollectOne(list[i + 1], i, target_url, st, persist_cb, fail),
              LAMBDA x : CollectLoop(list, i + 1, target_url, x, persist_cb, fail))

\* _collect_from_container_list, entered with the ledger, the callback
\* invocations and the history in st: the state with which the call ends.
\* When it raised, its local list is not returned; it is kept here for the
\* caller to drop.
_collect_from_container_list(container_list, target_url, st, persist_cb, fail) ==
    LET st0 == [st EXCEPT !.collected = <<>>]
    IN  IF fail.stage = "count" THEN [st0 EXCEPT !.raised = TRUE]
        ELSE CollectLoop(container_list, 0, target_url, st0, persist_cb, fail)

\* batch.extend(await _collect_from_container_list(...)) for one locator
HarvestOne(w, loc, target_url, h, persist_cb, fail) ==
    Bind(_collect_from_container_list(
             Locate(w, loc), target_url,
             [seen_urls |-> h.seen_urls, collected |-> <<>>, calls |-> h.calls,
              completed |-> h.completed, raised |-> FALSE],
             persist_cb, IF fail.loc = loc THEN fail ELSE NoFail),
         LAMBDA r : [seen_urls |-> r.seen_urls, batch |-> h.batch \o r.collected,
                     calls |-> r.calls, completed |-> r.completed, raised |-> r.raised])

\* for locator in locator_candidates, from candidate loc on
RECURSIVE HarvestLoop(_, _, _, _, _, _)
HarvestLoop(w, loc, target_url, h, persist_cb, fail) ==
    IF loc > 3 \/ h.raised THEN h
    ELSE Bind(HarvestOne(w, loc, target_url, h, persist_cb, fail),
              LAMBDA x : HarvestLoop(w, loc + 1, target_url, x, persist_cb, fail))

\* _harvest_visible_posts: [seen_urls, batch, calls, completed, raised].
\* completed: the records whose extraction ran to its end in this pass
\* (history).  When the pass raised, batch is what the exception takes away
\* from the caller.
_harvest_visible_posts(w, target_url, seen_urls, calls, persist_cb, fail) ==
    HarvestLoop(w, 1, target_url,
                [seen_urls |-> seen_urls, batch |-> <<>>, calls |-> calls,
                 completed |-> <<>>, raised |-> FALSE],
                persist_cb, fail)

\* Mutant: the text of the link is taken as it is.
LinkPayloadBareText(url, link_text) ==
    [url |-> url, raw_text |-> link_text,
     comments |-> <<>>, comment_count |-> 0, source_type |-> "permalink_fallback"]

\* lines 186-193: the payload
LinkPayload(url, link_text) ==
    [url |-> url,
     raw_text |-> IF link_text # <<>> THEN link_text
                  ELSE <<"Permalink discovered from profile/page feed.">>,
     comments |-> <<>>, comment_count |-> 0, source_type |-> "permalink_fallback"]

LinkStages == {"get_attribute", "link_text", "callback"}

\* One iteration of the loop of _collect_from_permalink_links, for the link
\* at index i (0-based).
LinkOne(a, i, target_url, st, persist_cb, fail) ==
    LET here(stage) == fail.idx = i /\ fail.stage = stage
        normalized == _normalize_facebook_url(a.href, target_url)
        payload    == LinkPayload(normalized, Strip(a.text))
        inserted   == [st EXCEPT !.seen_urls = @ \cup {normalized}]
        appended   == [inserted EXCEPT !.collected = Append(@, payload)]
        called     == IF persist_cb THEN [appended EXCEPT !.calls = Append(@, payload)]
                      ELSE appended
        finished   == [called EXCEPT !.completed = Append(@, payload)]
    IN  IF here("get_attribute") THEN [st EXCEPT !.raised = TRUE]
        ELSE IF ~a.has_href \/ ~a.valid THEN st
        ELSE IF normalized \in st.seen_urls THEN st
        ELSE IF here("link_text") THEN [inserted EXCEPT !.raised = TRUE]
        ELSE IF persist_cb /\ here("callback") THEN [called EXCEPT !.raised = TRUE]
        ELSE finished

\* for i in range(count), the iterations i .. count - 1 in order: the first
\* half of them, then the second half from the state the first half left.
RECURSIVE LinkLoop(_, _, _, _, _, _, _)
LinkLoop(links, count, i, target_url, st, persist_cb, fail) ==
    IF i >= count \/ st.raised THEN st
    ELSE IF count - i = 1 THEN LinkOne(links[i + 1], i, target_url, st, persist_cb, fail)
    ELSE LET mid == i + ((count - i) \div 2)
         IN  Bind(LinkLoop(links, mid, i, target_url, st, persist_cb, fail),
                  LAMBDA x : LinkLoop(links, count, mid, target_url, x, persist_cb, fail))

\* lines 173-198, on the anchors that links = page.locator(link_selector)
\* matches: count = min(await links.count(), 250) and the loop
CollectLinks(links, target_url, seen_urls, calls, persist_cb, fail) ==
    LET st0 == [seen_urls |-> seen_urls, collected |-> <<>>, calls |-> calls,
                completed |-> <<>>, raised |-> FALSE]
    IN  IF fail.stage = "count" THEN [st0 EXCEPT !.raised = TRUE]
        ELSE LinkLoop(links, Min(Len(links), MAX_LINKS), 0, target_url, st0, persist_cb, fail)

\* _collect_from_permalink_links: [seen_urls, collected, calls, completed, raised]
_collect_from_permalink_links(w, target_url, seen_urls, calls, persist_cb, fail) ==
    CollectLinks(LocateLinks(w), target_url, seen_urls, calls, persist_cb, fail)

SNIPPET_LEN == 1200

\* " ".join(s.split())
RECURSIVE CollapseWs(_)
CollapseWs(s) ==
    LET t == LStrip(s)
    IN  IF t = <<>> THEN <<>>
        ELSE IF \A i \in 1..Len(t) : t[i] \notin Whitespace THEN t
        ELSE LET k == CHOOSE i \in 1..Len(t) :
                        t[i] \in Whitespace /\ \A j \in 1..(i - 1) : t[j] \notin Whitespace
                 rest == CollapseWs(SubSeq(t, k, Len(t)))
             IN  IF rest = <<>> THEN SubSeq(t, 1, k - 1)
                 ELSE SubSeq(t, 1, k - 1) \o <<" ">> \o rest

PageTitle == <<"G", "r", "p">>

\* body.inner_text(): the visible text of the rendered regions
RECURSIVE JoinLines(_)
JoinLines(texts) ==
    IF texts = <<>> THEN <<>>
    ELSE IF Len(texts) = 1 THEN texts[1]
    ELSE texts[1] \o <<"\n">> \o JoinLines(Tail(texts))

BodyText(w) == LET vis == Visible(w) IN JoinLines([i \in 1..Len(vis) |-> vis[i].text])

\* Mutant: the page-level record is keyed by the normalized target URL.
PageLevelFallbackNormalized(target_url, w, title_ok, body_ok) ==
    [url |-> _normalize_facebook_url(target_url, target_url),
     raw_text |-> Strip(PageTitle),
     comments |-> <<>>, comment_count |-> 0, source_type |-> "page_fallback"]

\* _collect_page_level_fallback; title_ok and body_ok tell whether page.title()
\* and body.inner_text() returned (a failure of either is caught there).
_collect_page_level_fallback(target_url, w, title_ok, body_ok) ==
    LET title == IF title_ok THEN Strip(PageTitle) ELSE <<>>
        body_text == IF body_ok THEN Strip(BodyText(w)) ELSE <<>>
        snippet_source == IF body_text # <<>> THEN body_text ELSE title
        collapsed == CollapseWs(snippet_source)
        cut == Strip(SubSeq(collapsed, 1, Min(Len(collapsed), SNIPPET_LEN)))
        snippet == IF cut = <<>>
                   THEN <<"No extractable post containers found. Fallback page-level record.">>
                   ELSE cut
    IN  [url |-> target_url,
         raw_text |-> Strip(title \o <<"\n", "\n">> \o snippet),
         comments |-> <<>>, comment_count |-> 0, source_type |-> "page_fallback"]

\* str(exc) of the exceptions the rendering surface and the callback raise
Reasons == {<<"Timeout 60000ms exceeded.">>}

_build_emergency_fallback(target_url, reason) ==
    LET text == <<"No extractable post containers found. Emergency fallback record.">>
    IN  [url |-> target_url,
         raw_text |-> IF reason # <<>> THEN text \o <<" Reason: ">> \o reason ELSE text,
         comments |-> <<>>, comment_count |-> 0, source_type |-> "emergency_fallback"]

---------------------------------------------------------------------------
(* scrape_group *)

VARIABLES
    pc,                \* the awaited call scrape_group is about to make
    target_url, scroll_min, scroll_max, persist_cb,   \* the arguments
    window,            \* the page: the rendered window of the feed
    playwright, browser, context,   \* "none", "open" or "closed"
    collected, seen_urls,
    cycle,             \* cycles completed: the loop variable of the cycle that runs
    before, no_growth_cycles,
    calls,             \* the records the callback was invoked with, in order
    caught,            \* the except clause of scrape_group has run
    reason,            \* str(exc) of the exception raised last
    propagating,       \* an exception is on its way out of scrape_group
    fault,             \* history: the kind of call that raised last
    result,            \* the returned list
    nav_attempts,      \* page.goto calls made
    completed,         \* history: records appended to a list, callback returned
    last_change,       \* history: the last cycle (from 1) in which the page changed
    steps,             \* history: the calls made since the loop body, or the code
                       \* after the loop, was entered
    passes,            \* history: calls of _harvest_visible_posts made
    ledger_at_start    \* history: the size of the ledger when the cycle began

\* _run_multi_scrape_sync (src/dashboard.py)
VARIABLES
    urls,              \* the input URLs
    pages,             \* per input URL, how its page behaves
    tasks,             \* per input URL, the scrape_one task and its scrape_group call
    batch_pc,          \* "idle", "gather" or "returned"
    merged             \* the returned list

batch == <<urls, pages, tasks, batch_pc, merged>>

\* main.run (src/main.py) and the store behind it (src/modules/database.py)
VARIABLES
    env,               \* the environment: TARGET_GROUP_URL and GEMINI_KEY
    store,             \* the collection of post documents, by document id
    store0,            \* history: the collection when run() was called
    main_pc,           \* the statement run() is about to execute
    db_inits,          \* calls of init_db made
    scrape_begun,      \* scrape_group was called
    main_error         \* the message of the error that left run()

entry == <<env, store, store0, main_pc, db_inits, scrape_begun, main_error>>

\* _normalize_facebook_url applied to a pair of links
VARIABLES
    norm_pc,           \* "idle", "raw", "normalized" or "renormalized"
    norm_base,         \* the base URL
    raw_a, raw_b,      \* the raw links
    out_a, out_b,      \* their identity strings
    again_a            \* the identity string of out_a

norm == <<norm_pc, norm_base, raw_a, raw_b, out_a, out_b, again_a>>

\* _extract_comments called on one container
VARIABLES
    cm_pc,             \* "idle", "call" or "returned"
    cm_container,      \* the container
    cm_raw_text,       \* raw_text
    cm_max,            \* max_comments
    cm_out             \* the returned list

cm == <<cm_pc, cm_container, cm_raw_text, cm_max, cm_out>>

\* _wait_for_feed_settle called on a page
VARIABLES
    settle_pc,         \* "idle", "poll" or "returned"
    rounds,            \* rounds
    polls,             \* history: iterations of the loop begun
    last_height, last_signal, stable_rounds,
    doc_height, doc_signal,   \* history: the page at the latest poll
    doc_stable         \* history: the latest consecutive polls that found the
                       \* page as the poll before them had found it

settle == <<settle_pc, rounds, polls, last_height, last_signal, stable_rounds,
            doc_height, doc_signal, doc_stable>>

\* The click loops of _extract_comments and _click_expand_controls
VARIABLES
    click_pc,          \* "idle", "count", "click", "returned" or "raised"
    click_limit,       \* 3 in _extract_comments, 8 in _click_expand_controls
    click_buttons,     \* per selector, the number of controls that match it
    click_sel,         \* the selector of the current iteration (from 1)
    click_i,           \* the loop variable of the inner loop
    click_count,       \* count
    click_attempts,    \* history: per selector, the clicks attempted
    click_failed       \* history: the clicks that raised

clicks == <<click_pc, click_limit, click_buttons, click_sel, click_i, click_count,
            click_attempts, click_failed>>

\* _collect_from_permalink_links called on a page
VARIABLES
    link_pc,           \* "idle", "call", "returned" or "raised"
    link_list,         \* the anchors that match link_selector, in DOM order
    link_seen0,        \* the ledger at the call
    link_cb,           \* a callback was given
    link_out           \* the state in which the call ended

links == <<link_pc, link_list, link_seen0, link_cb, link_out>>

\* _capture_facebook_storage_state._runner (src/dashboard.py)
VARIABLES
    login_pc,          \* the statement _runner is about to execute
    clock,             \* time.time(), in seconds
    deadline,
    jar,               \* the cookies of the browser context
    logged_in,
    saved,             \* the storage state file was written
    login_browser,     \* "none", "open" or "closed"
    login_error,       \* the message of the error that left _runner
    signal_seen        \* history: a poll made before the deadline found a
                       \* c_user cookie of a facebook.com domain

login == <<login_pc, clock, deadline, jar, logged_in, saved, login_browser, login_error,
           signal_seen>>

\* process_pending_posts (src/modules/processor.py) called on a store
VARIABLES
    proc_pc,           \* the statement process_pending_posts is about to execute
    proc_db,           \* the collection of post documents, by document id
    proc_key,          \* GEMINI_KEY
    proc_limit,        \* limit
    proc_pending,      \* pending
    proc_by_id,        \* what analyze_posts_with_gemini did: [raised, by_id]
    proc_i,            \* the post the running loop is at (from 1)
    proc_updated,      \* updated
    proc_marks,        \* history: per fetched post, the statuses written, in order
    proc_ret           \* the returned number

proc == <<proc_pc, proc_db, proc_key, proc_limit, proc_pending, proc_by_id, proc_i,
          proc_updated, proc_marks, proc_ret>>

\* analyze_posts_with_gemini (src/modules/processor.py) called on a batch
VARIABLES
    gem_pc,            \* the statement analyze_posts_with_gemini is about to execute
    gem_key,           \* api_key or GEMINI_KEY
    gem_posts,         \* posts
    gem_attempt,       \* attempt
    gem_calls,         \* history: calls of model.generate_content made
    gem_waits,         \* history: the arguments of time.sleep, in order
    gem_errors,        \* history: the messages of the exceptions the calls raised
    gem_exc,           \* the message of the exception that left the function
    gem_response,      \* what the model answered
    gem_out            \* the returned mapping

gem == <<gem_pc, gem_key, gem_posts, gem_attempt, gem_calls, gem_waits, gem_errors,
         gem_exc, gem_response, gem_out>>

\* upsert_post and mark_post_processed (src/modules/database.py) called on a store
VARIABLES
    ups_pc,            \* "idle" or "open"
    ups_db,            \* the collection of post documents, by document id
    ups_seen,          \* history: the URLs upsert_post accepted
    ups_ids,           \* history: per such URL, the id returned for it first
    ups_ops,           \* history: calls made
    ups_op             \* history: the latest call and how it ended

ups == <<ups_pc, ups_db, ups_seen, ups_ids, ups_ops, ups_op>>

services == <<proc, gem, ups>>

units == <<cm, settle, clicks, links, login, services>>

\* What a single call of scrape_group has no access to.
outside == <<batch, entry, norm, units>>

vars == <<pc, target_url, scroll_min, scroll_max, persist_cb, window, playwright,
          browser, context, collected, seen_urls, cycle, before, no_growth_cycles,
          calls, caught, reason, propagating, fault, result, nav_attempts, completed,
          last_change, steps, passes, ledger_at_start, outside>>

CmIdle ==
    /\ cm_pc = "idle" /\ cm_container = <<>> /\ cm_raw_text = <<>>
    /\ cm_max = 0 /\ cm_out = <<>>

SettleIdle ==
    /\ settle_pc = "idle" /\ rounds = 0 /\ polls = 0
    /\ last_height = -1 /\ last_signal = -1 /\ stable_rounds = 0
    /\ doc_height = -1 /\ doc_signal = -1 /\ doc_stable = 0

ClicksIdle ==
    /\ click_pc = "idle" /\ click_limit = 0 /\ click_buttons = <<>>
    /\ click_sel = 0 /\ click_i = 0 /\ click_count = 0
    /\ click_attempts = <<>> /\ click_failed = 0

LinksIdle ==
    /\ link_pc = "idle" /\ link_list = <<>> /\ link_seen0 = {}
    /\ link_cb = FALSE /\ link_out = <<>>

LoginIdle ==
    /\ login_pc = "idle" /\ clock = 0 /\ deadline = 0 /\ jar = {}
    /\ logged_in = FALSE /\ saved = FALSE /\ login_browser = "none"
    /\ login_error = "" /\ signal_seen = FALSE

ProcIdle ==
    /\ proc_pc = "idle" /\ proc_db = <<>> /\ proc_key = <<>> /\ proc_limit = 0
    /\ proc_pending = <<>> /\ proc_by_id = <<>> /\ proc_i = 0
    /\ proc_updated = 0 /\ proc_marks = <<>> /\ proc_ret = -1

GemIdle ==
    /\ gem_pc = "idle" /\ gem_key = <<>> /\ gem_posts = <<>> /\ gem_attempt = 0
    /\ gem_calls = 0 /\ gem_waits = <<>> /\ gem_errors = <<>> /\ gem_exc = <<>>
    /\ gem_response = <<>> /\ gem_out = <<>>

UpsIdle ==
    /\ ups_pc = "idle" /\ ups_db = <<>> /\ ups_seen = {} /\ ups_ids = <<>>
    /\ ups_ops = 0 /\ ups_op = <<>>

ServicesIdle == ProcIdle /\ GemIdle /\ UpsIdle

\* None of the functions above is being run on its own.
UnitsIdle == CmIdle /\ SettleIdle /\ ClicksIdle /\ LinksIdle /\ LoginIdle /\ ServicesIdle

\* No pair of links is being normalized.
NormIdle ==
    /\ norm_pc = "idle" /\ norm_base = NoUrl /\ raw_a = NoUrl /\ raw_b = NoUrl
    /\ out_a = <<>> /\ out_b = <<>> /\ again_a = <<>>

\* run() is not running.
MainIdle ==
    /\ env = <<>> /\ store = <<>> /\ store0 = <<>>
    /\ main_pc = "idle" /\ db_inits = 0 /\ scrape_begun = FALSE /\ main_error = ""

\* No batch is running.
BatchIdle ==
    /\ urls = <<>> /\ pages = <<>> /\ tasks = <<>>
    /\ batch_pc = "idle" /\ merged = <<>>

MaxVisible == 2

TargetUrls == {TargetUrl}
\* <<scroll_min, scroll_max>>: one cycle at least and a cap of 2, one cycle at
\* least and a cap of 6, five cycles at least and a cap of 5.
ScrollArgs == {<<0, -4>>, <<0, 0>>, <<5, -4>>}

NoFault == "none"

Windows ==
    {w \in [lo : 1..(Len(Feed) + 1), hi : 0..Len(Feed)] :
        w.lo <= w.hi + 1 /\ w.hi - w.lo + 1 <= MaxVisible}

\* A freshly loaded page shows the top of the feed.
InitialWindows == {w \in Windows : w.lo = 1}

\* Scrolling a virtualized feed moves the window down, or leaves it.
NextWindows(w) == {v \in Windows : v.lo >= w.lo /\ v.hi >= w.hi}

STALL_THRESHOLD == 3
CAP_MARGIN == 6

min_cycles == Max(1, scroll_min)
max_cycles == Max(min_cycles, scroll_max + CAP_MARGIN)

\* Mutant: growth does not reset the counter.
NoGrowthAfterNeverResets(after, count_before, no_growth) == no_growth + 1

\* lines 453-457: the no-growth counter after a cycle
NoGrowthAfter(after, count_before, no_growth) ==
    IF after > count_before THEN 0 ELSE no_growth + 1

\* Mutant: the stall threshold is taken one too high.
AdaptiveStopLate(c, no_growth) == c + 1 >= min_cycles /\ no_growth > STALL_THRESHOLD

\* Mutant: the minimum number of cycles is not waited for.
AdaptiveStopNoMin(c, no_growth) == no_growth >= STALL_THRESHOLD

\* line 460, at the end of the cycle with loop variable c
AdaptiveStop(c, no_growth) == c + 1 >= min_cycles /\ no_growth >= STALL_THRESHOLD

\* Mutant: the permalink-only extraction runs for an empty list only.
PermalinkNeededWhenEmpty(list) == list = <<>>

\* line 473: if len(collected) <= 1
PermalinkNeeded(list) == Len(list) <= 1

\* Mutant: the page-level record is built whatever was collected.
PageFallbackNeededAlways(list) == TRUE

\* line 483: if not collected
PageFallbackNeeded(list) == list = <<>>

\* The calls of a harvest pass that may raise.
HarvestFails(w) ==
    {NoFail}
    \cup {[loc |-> l, idx |-> 0, stage |-> "count"] : l \in LocatorCandidates}
    \cup UNION {{[loc |-> l, idx |-> i, stage |-> st] :
                    i \in 0..(Len(Locate(w, l)) - 1), st \in Stages} :
                l \in LocatorCandidates}

LinkFails(w) ==
    {NoFail, [loc |-> 0, idx |-> 0, stage |-> "count"]}
    \cup {[loc |-> 0, idx |-> i, stage |-> st] :
            i \in 0..(Len(LocateLinks(w)) - 1), st \in LinkStages}

Init ==
    /\ pc = "enter"
    /\ target_url \in TargetUrls
    /\ \E a \in ScrollArgs : scroll_min = a[1] /\ scroll_max = a[2]
    /\ persist_cb \in BOOLEAN
    /\ window \in InitialWindows
    /\ playwright = "none" /\ browser = "none" /\ context = "none"
    /\ collected = <<>> /\ seen_urls = {}
    /\ cycle = 0 /\ before = 0 /\ no_growth_cycles = 0
    /\ calls = <<>>
    /\ caught = FALSE /\ reason = <<>> /\ propagating = FALSE
    /\ fault = NoFault
    /\ result = <<>>
    /\ nav_attempts = 0
    /\ completed = <<>>
    /\ last_change = 0
    /\ steps = <<>> /\ passes = 0 /\ ledger_at_start = 0
    /\ BatchIdle
    /\ MainIdle
    /\ NormIdle
    /\ UnitsIdle

args == <<target_url, scroll_min, scroll_max, persist_cb>>
resources == <<playwright, browser, context>>
harvest == <<collected, seen_urls, calls, completed>>
counters == <<cycle, before, no_growth_cycles>>
page == <<window, last_change>>
history == <<steps, passes, ledger_at_start>>

\* An exception leaves scrape_group from outside its try statement, through
\* the end of the async with block (which stops the Playwright driver).
Propagate(r) ==
    /\ pc' = "raised"
    /\ propagating' = TRUE
    /\ reason' = r
    /\ fault' = "outside_try"

\* Mutant: the placeholder is appended whatever was collected.
ExceptAlwaysPlaceholder(list, r, stage) ==
    /\ caught' = TRUE
    /\ reason' = r
    /\ fault' = stage
    /\ collected' = Append(list, _build_emergency_fallback(target_url, r))
    /\ pc' = "close_context"

\* except Exception as exc (lines 491-495), entered with the list as it is
\* when the exception arrives.
Except(list, r, stage) ==
    /\ caught' = TRUE
    /\ reason' = r
    /\ fault' = stage
    /\ collected' = IF list = <<>> THEN <<_build_emergency_fallback(target_url, r)>> ELSE list
    /\ pc' = "close_context"

\* The page changes while a call is awaited.
PageMoves ==
    \E v \in NextWindows(window) :
        /\ window' = v
        /\ last_change' = IF v # window THEN cycle + 1 ELSE last_change

\* async with async_playwright() as p
EnterPlaywright ==
    /\ pc = "enter"
    /\ \/ /\ playwright' = "open"
          /\ pc' = "launch"
          /\ UNCHANGED <<reason, propagating, fault>>
       \/ /\ \E r \in Reasons : Propagate(r)
          /\ UNCHANGED playwright
    /\ UNCHANGED <<outside, history, args, page, browser, context, harvest, counters, caught, result,
                   nav_attempts>>

\* _launch_browser_with_fallback, first launch
Launch ==
    /\ pc = "launch"
    /\ \/ /\ browser' = "open"
          /\ pc' = "new_context"
          /\ UNCHANGED <<playwright, reason, propagating, fault>>
       \/ \* "Executable doesn't exist": try the local Chrome channel
          /\ pc' = "launch_chrome"
          /\ UNCHANGED <<playwright, browser, reason, propagating, fault>>
       \/ /\ \E r \in Reasons : Propagate(r)
          /\ playwright' = "closed"
          /\ UNCHANGED browser
    /\ UNCHANGED <<outside, history, args, page, context, harvest, counters, caught, result, nav_attempts>>

LaunchChrome ==
    /\ pc = "launch_chrome"
    /\ \/ /\ browser' = "open"
          /\ pc' = "new_context"
          /\ UNCHANGED <<playwright, reason, propagating, fault>>
       \/ /\ \E r \in Reasons : Propagate(r)
          /\ playwright' = "closed"
          /\ UNCHANGED browser
    /\ UNCHANGED <<outside, history, args, page, context, harvest, counters, caught, result, nav_attempts>>

NewContext ==
    /\ pc = "new_context"
    /\ \/ /\ context' = "open"
          /\ pc' = "new_page"
          /\ UNCHANGED <<playwright, reason, propagating, fault>>
       \/ /\ \E r \in Reasons : Propagate(r)
          /\ playwright' = "closed"
          /\ UNCHANGED context
    /\ UNCHANGED <<outside, history, args, page, browser, harvest, counters, caught, result, nav_attempts>>

NewPage ==
    /\ pc = "new_page"
    /\ \/ /\ pc' = "goto1"
          /\ UNCHANGED <<playwright, reason, propagating, fault>>
       \/ /\ \E r \in Reasons : Propagate(r)
          /\ playwright' = "closed"
    /\ UNCHANGED <<outside, history, args, page, browser, context, harvest, counters, caught, result,
                   nav_attempts>>

\* Mutant: after the first tier the last one is tried at once.
GotoTier1SkipsTier2 ==
    /\ pc = "goto1"
    /\ nav_attempts' = nav_attempts + 1
    /\ pc' \in {"harvest1", "goto3"}
    /\ UNCHANGED <<outside, history, args, page, resources, harvest, counters, caught, reason,
                   propagating, fault, result>>

\* _goto_with_resilient_wait, first try block: goto(domcontentloaded) and
\* wait_for_load_state("load"); a failure of either is passed over.
GotoTier1 ==
    /\ pc = "goto1"
    /\ nav_attempts' = nav_attempts + 1
    /\ pc' \in {"harvest1", "goto2"}
    /\ UNCHANGED <<outside, history, args, page, resources, harvest, counters, caught, reason, propagating,
                   fault, result>>

\* second try block: goto(wait_until="load")
GotoTier2 ==
    /\ pc = "goto2"
    /\ nav_attempts' = nav_attempts + 1
    /\ pc' \in {"harvest1", "goto3"}
    /\ UNCHANGED <<outside, history, args, page, resources, harvest, counters, caught, reason, propagating,
                   fault, result>>

\* last fallback: goto() and wait_for_timeout(2000), outside any try of
\* _goto_with_resilient_wait
GotoTier3 ==
    /\ pc = "goto3"
    /\ nav_attempts' = nav_attempts + 1
    /\ \/ /\ pc' = "harvest1"
          /\ UNCHANGED <<collected, caught, reason, fault>>
       \/ \E r \in Reasons : Except(collected, r, "goto")
    /\ UNCHANGED <<outside, history, args, page, resources, seen_urls, calls, completed, counters,
                   propagating, result>>

\* Mutant: the clicks on the expansion controls are left out.
HarvestedSkipsClick(h, r, stage, next) ==
    /\ seen_urls' = h.seen_urls
    /\ calls' = h.calls
    /\ completed' = completed \o h.completed
    /\ IF h.raised THEN Except(collected, r, stage)
       ELSE /\ collected' = collected \o h.batch
            /\ pc' = IF next = "click" THEN "scroll" ELSE next
            /\ UNCHANGED <<caught, reason, fault>>

\* One _harvest_visible_posts call of scrape_group and its collected.extend:
\* the ledger and the callback see every region handled before an exception,
\* the list only the batch of a pass that returned.
Harvested(h, r, stage, next) ==
    /\ seen_urls' = h.seen_urls
    /\ calls' = h.calls
    /\ completed' = completed \o h.completed
    /\ IF h.raised THEN Except(collected, r, stage)
       ELSE /\ collected' = collected \o h.batch
            /\ pc' = next
            /\ UNCHANGED <<caught, reason, fault>>

\* for cycle in range(max_cycles): before = len(seen_urls); first harvest
HarvestBefore ==
    /\ pc = "harvest1"
    /\ before' = Cardinality(seen_urls)
    /\ \E f \in HarvestFails(window), r \in Reasons :
          \E h \in {_harvest_visible_posts(window, target_url, seen_urls, calls,
                                            persist_cb, f)} :
              Harvested(h, r, f.stage, "click")
    /\ steps' = <<"container">>
    /\ passes' = passes + 1
    /\ ledger_at_start' = Cardinality(seen_urls)
    /\ UNCHANGED <<outside, args, page, resources, cycle, no_growth_cycles, propagating, result,
                   nav_attempts>>

\* _click_expand_controls: a failing click is passed over, a failing
\* buttons.count() is not.
ClickExpandControls ==
    /\ pc = "click"
    /\ \/ /\ pc' = "scroll"
          /\ PageMoves
          /\ UNCHANGED <<collected, caught, reason, fault>>
       \/ /\ \E r \in Reasons : Except(collected, r, "click")
          /\ UNCHANGED page
    /\ steps' = Append(steps, "click")
    /\ UNCHANGED <<outside, passes, ledger_at_start, args, resources, seen_urls, calls, completed, counters, propagating,
                   result, nav_attempts>>

\* page.mouse.wheel(...) and page.evaluate("window.scrollTo(...)")
Scroll ==
    /\ pc = "scroll"
    /\ \/ /\ pc' = "settle"
          /\ PageMoves
          /\ UNCHANGED <<collected, caught, reason, fault>>
       \/ /\ \E r \in Reasons : Except(collected, r, "scroll")
          /\ UNCHANGED page
    /\ steps' = Append(steps, "scroll")
    /\ UNCHANGED <<outside, passes, ledger_at_start, args, resources, seen_urls, calls, completed, counters, propagating,
                   result, nav_attempts>>

\* _wait_for_feed_settle(page, rounds=2): every failure inside it is caught
WaitForFeedSettle ==
    /\ pc = "settle"
    /\ pc' = "harvest2"
    /\ PageMoves
    /\ steps' = Append(steps, "settle")
    /\ UNCHANGED <<outside, passes, ledger_at_start, args, resources, harvest, counters, caught, reason, propagating,
                   fault, result, nav_attempts>>

\* second harvest, the no-growth counter and the adaptive stop (lines 445-461)
HarvestAfter ==
    /\ pc = "harvest2"
    /\ \E f \in HarvestFails(window), r \in Reasons :
          \E h \in {_harvest_visible_posts(window, target_url, seen_urls, calls,
                                            persist_cb, f)} :
          LET after == Cardinality(h.seen_urls)
              ng == NoGrowthAfter(after, before, no_growth_cycles)
              stop == AdaptiveStop(cycle, ng)
          IN  /\ Harvested(h, r, f.stage, IF stop \/ cycle + 1 >= max_cycles
                                          THEN "final_harvest" ELSE "harvest1")
              /\ IF h.raised THEN UNCHANGED <<cycle, no_growth_cycles>>
                 ELSE /\ no_growth_cycles' = ng
                      /\ cycle' = cycle + 1
    /\ steps' = Append(steps, "container")
    /\ passes' = passes + 1
    /\ UNCHANGED <<outside, ledger_at_start, args, page, resources, before, propagating, result, nav_attempts>>

\* the harvest after the loop (lines 463-470) and the test of line 473
FinalHarvest ==
    /\ pc = "final_harvest"
    /\ \E f \in HarvestFails(window), r \in Reasons :
          \E h \in {_harvest_visible_posts(window, target_url, seen_urls, calls,
                                            persist_cb, f)} :
              Harvested(h, r, f.stage,
                        IF PermalinkNeeded(collected \o h.batch) THEN "permalinks"
                        ELSE "close_context")
    /\ steps' = <<"container">>
    /\ passes' = passes + 1
    /\ UNCHANGED <<outside, ledger_at_start, args, page, resources, counters, propagating, result, nav_attempts>>

\* _collect_from_permalink_links (lines 474-481) and the test of line 483
PermalinkLinks ==
    /\ pc = "permalinks"
    /\ \E f \in LinkFails(window), r \in Reasons :
          \E h \in {_collect_from_permalink_links(window, target_url, seen_urls, calls,
                                                   persist_cb, f)} :
              /\ seen_urls' = h.seen_urls
              /\ calls' = h.calls
              /\ completed' = completed \o h.completed
              /\ IF h.raised THEN Except(collected, r, f.stage)
                 ELSE /\ collected' = collected \o h.collected
                      /\ pc' = IF PageFallbackNeeded(collected \o h.collected) THEN "page_fallback"
                               ELSE "close_context"
                      /\ UNCHANGED <<caught, reason, fault>>
    /\ steps' = Append(steps, "permalinks")
    /\ UNCHANGED <<outside, passes, ledger_at_start, args, page, resources, counters, propagating, result, nav_attempts>>

\* _collect_page_level_fallback, the append and the callback (lines 484-490)
PageLevelFallback ==
    /\ pc = "page_fallback"
    /\ \E title_ok \in BOOLEAN, body_ok \in BOOLEAN :
          \E payload \in {_collect_page_level_fallback(target_url, window, title_ok,
                                                        body_ok)} :
              \/ /\ collected' = Append(collected, payload)
                 /\ calls' = IF persist_cb THEN Append(calls, payload) ELSE calls
                 /\ completed' = Append(completed, payload)
                 /\ pc' = "close_context"
                 /\ UNCHANGED <<caught, reason, fault>>
              \/ \* the callback raises, after the append
                 /\ persist_cb
                 /\ calls' = Append(calls, payload)
                 /\ UNCHANGED completed
                 /\ \E r \in Reasons : Except(Append(collected, payload), r, "callback")
    /\ steps' = Append(steps, "page_level")
    /\ UNCHANGED <<outside, passes, ledger_at_start, args, page, resources, seen_urls, counters, propagating, result,
                   nav_attempts>>

\* finally: await context.close()
CloseContext ==
    /\ pc = "close_context"
    /\ \/ /\ context' = "closed"
          /\ pc' = "close_browser"
          /\ UNCHANGED <<playwright, reason, propagating, fault>>
       \/ /\ \E r \in Reasons : Propagate(r)
          /\ playwright' = "closed"
          /\ UNCHANGED context
    /\ UNCHANGED <<outside, history, args, page, browser, harvest, counters, caught, result, nav_attempts>>

\* Lines 500-501 without their test: the placeholder is appended to any list.
CloseBrowserAlwaysAppends ==
    /\ pc = "close_browser"
    /\ playwright' = "closed"
    /\ \/ /\ browser' = "closed"
          /\ pc' = "returned"
          /\ collected' = Append(collected, _build_emergency_fallback(target_url, <<>>))
          /\ result' = collected'
          /\ UNCHANGED <<reason, propagating, fault>>
       \/ /\ \E r \in Reasons : Propagate(r)
          /\ UNCHANGED <<browser, collected, result>>
    /\ UNCHANGED <<outside, history, args, page, context, seen_urls, calls, completed, counters, caught,
                   nav_attempts>>

\* finally: await browser.close(); then the end of the async with block and
\* lines 500-503
CloseBrowser ==
    /\ pc = "close_browser"
    /\ playwright' = "closed"
    /\ \/ /\ browser' = "closed"
          /\ pc' = "returned"
          /\ collected' = IF collected = <<>>
                          THEN <<_build_emergency_fallback(target_url, <<>>)>>
                          ELSE collected
          /\ result' = collected'
          /\ UNCHANGED <<reason, propagating, fault>>
       \/ /\ \E r \in Reasons : Propagate(r)
          /\ UNCHANGED <<browser, collected, result>>
    /\ UNCHANGED <<outside, history, args, page, context, seen_urls, calls, completed, counters, caught,
                   nav_attempts>>

Next ==
    \/ EnterPlaywright
    \/ Launch
    \/ LaunchChrome
    \/ NewContext
    \/ NewPage
    \/ GotoTier1
    \/ GotoTier2
    \/ GotoTier3
    \/ HarvestBefore
    \/ ClickExpandControls
    \/ Scroll
    \/ WaitForFeedSettle
    \/ HarvestAfter
    \/ FinalHarvest
    \/ PermalinkLinks
    \/ PageLevelFallback
    \/ CloseContext
    \/ CloseBrowser

Spec == Init /\ [][Next]_vars

---------------------------------------------------------------------------
(* _run_multi_scrape_sync: one scrape_one task per input URL, gathered *)

single == <<pc, target_url, scroll_min, scroll_max, persist_cb, window, playwright,
            browser, context, collected, seen_urls, cycle, before, no_growth_cycles,
            calls, caught, reason, propagating, fault, result, nav_attempts, completed,
            last_change, steps, passes, ledger_at_start>>

Url2 == MkUrl("https", "fb.com", <<"/groups/43">>, <<>>, <<>>)
Url3 == MkUrl("https", "fb.com", <<"/groups/44", "/">>, <<>>, <<>>)
BatchUrls == <<TargetUrl, Url2, Url3>>

\* The slider of the dashboard gives scroll_times >= 1.
ScrollTimes == {1}

\* Per input URL, the window its page shows (the pages of a batch stand still).
PageSets ==
    {<<[lo |-> 2, hi |-> 3], [lo |-> 5, hi |-> 5], [lo |-> 4, hi |-> 5]>>,
     <<[lo |-> 1, hi |-> 1], [lo |-> 2, hi |-> 2], [lo |-> 1, hi |-> 0]>>}

\* The call of a run that raises, if any: a call of lines 412-419, the
\* navigation, count() of the second locator in the first harvest pass, or a
\* call of lines 497-498.
RunFails == {"launch", "goto", "harvest", "close"}

\* scrape_group entered: collected = [], seen_urls = set()
TaskStart ==
    [pc |-> "launch", collected |-> <<>>, seen_urls |-> {}, cycle |-> 0, before |-> 0,
     no_growth_cycles |-> 0, reason |-> <<>>, rows |-> <<>>]

\* Mutant: scrape_group lets the exception through.
RunExceptPropagates(r, url, why) ==
    [r EXCEPT !.reason = why, !.pc = "raised"]

\* except Exception as exc (lines 491-495) of the run r
RunExcept(r, url, why) ==
    [r EXCEPT !.collected = IF @ = <<>> THEN <<_build_emergency_fallback(url, why)>> ELSE @,
              !.reason = why,
              !.pc = "close"]

\* One run of scrape_group(target_url = url, scroll_min = scroll_max =
\* scroll_times), without callback, from one suspension to the next.  The
\* awaited calls that touch neither the list nor the ledger are taken
\* together: lines 412-419 ("launch"), 439-442 ("scroll"), 497-498 ("close").
ScrapeGroupStep(r, url, b) ==
    CASE r.pc = "launch" ->
           IF b.fail = "launch" THEN [r EXCEPT !.pc = "raised", !.reason = b.reason]
           ELSE [r EXCEPT !.pc = "goto"]
      [] r.pc = "goto" ->
           IF b.fail = "goto" THEN RunExcept(r, url, b.reason)
           ELSE [r EXCEPT !.pc = "harvest1"]
      [] r.pc = "harvest1" ->
           Bind(_harvest_visible_posts(
                    b.w, url, r.seen_urls, <<>>, FALSE,
                    IF b.fail = "harvest" THEN [loc |-> 2, idx |-> 0, stage |-> "count"]
                    ELSE NoFail),
                LAMBDA h :
                    IF h.raised
                    THEN RunExcept([r EXCEPT !.seen_urls = h.seen_urls], url, b.reason)
                    ELSE [r EXCEPT !.before = Cardinality(r.seen_urls),
                                   !.seen_urls = h.seen_urls,
                                   !.collected = @ \o h.batch,
                                   !.pc = "scroll"])
      [] r.pc = "scroll" -> [r EXCEPT !.pc = "harvest2"]
      [] r.pc = "harvest2" ->
           Bind(_harvest_visible_posts(b.w, url, r.seen_urls, <<>>, FALSE, NoFail),
                LAMBDA h :
                    LET ng == NoGrowthAfter(Cardinality(h.seen_urls), r.before,
                                            r.no_growth_cycles)
                    IN  [r EXCEPT !.seen_urls = h.seen_urls,
                                  !.collected = @ \o h.batch,
                                  !.no_growth_cycles = ng,
                                  !.cycle = @ + 1,
                                  !.pc = IF AdaptiveStop(r.cycle, ng)
                                            \/ r.cycle + 1 >= max_cycles
                                         THEN "final_harvest" ELSE "harvest1"])
      [] r.pc = "final_harvest" ->
           Bind(_harvest_visible_posts(b.w, url, r.seen_urls, <<>>, FALSE, NoFail),
                LAMBDA h :
                    [r EXCEPT !.seen_urls = h.seen_urls,
                              !.collected = @ \o h.batch,
                              !.pc = IF PermalinkNeeded(r.collected \o h.batch)
                                     THEN "permalinks" ELSE "close"])
      [] r.pc = "permalinks" ->
           Bind(_collect_from_permalink_links(b.w, url, r.seen_urls, <<>>, FALSE, NoFail),
                LAMBDA h :
                    [r EXCEPT !.seen_urls = h.seen_urls,
                              !.collected = @ \o h.collected,
                              !.pc = IF PageFallbackNeeded(r.collected \o h.collected)
                                     THEN "page_fallback" ELSE "close"])
      [] r.pc = "page_fallback" ->
           [r EXCEPT !.collected = Append(@, _collect_page_level_fallback(url, b.w, TRUE, TRUE)),
                     !.pc = "close"]
      [] r.pc = "close" ->
           IF b.fail = "close" THEN [r EXCEPT !.pc = "raised", !.reason = b.reason]
           ELSE [r EXCEPT !.collected = IF @ = <<>>
                                        THEN <<_build_emergency_fallback(url, <<>>)>>
                                        ELSE @,
                          !.pc = "returned"]
      [] OTHER -> r

\* row["target_url"] = url
WithTargetUrl(row, url) ==
    [f \in DOMAIN row \cup {"target_url"} |-> IF f = "target_url" THEN url ELSE row[f]]

\* Mutant: the failure record is keyed like a record of the run.
BatchErrorUntagged(url, why) ==
    [url |-> url, target_url |-> url,
     raw_text |-> <<"Scrape failed for input URL. Reason: ">> \o Strip(why),
     comments |-> <<>>, comment_count |-> 0, source_type |-> "emergency_fallback"]

\* The record of the except clause of scrape_one (lines 144-154)
BatchError(url, why) ==
    [url |-> url, target_url |-> url,
     raw_text |-> <<"Scrape failed for input URL. Reason: ">>
                  \o (IF Strip(why) # <<>> THEN Strip(why) ELSE <<"repr(exc)">>),
     comments |-> <<>>, comment_count |-> 0, source_type |-> "batch_error"]

\* scrape_one from one suspension to the next: a step of its scrape_group
\* call and, when that call ends, the rest of scrape_one.
scrape_one(r, url, b) ==
    Bind(ScrapeGroupStep(r, url, b),
         LAMBDA x :
            IF x.pc = "returned"
            THEN [x EXCEPT !.rows = [i \in 1..Len(x.collected) |->
                                        WithTargetUrl(x.collected[i], url)],
                           !.pc = "done"]
            ELSE IF x.pc = "raised"
            THEN [x EXCEPT !.rows = <<BatchError(url, x.reason)>>, !.pc = "done"]
            ELSE x)

\* Mutant: the runs of a batch use one ledger.
TaskStateSharedLedger(ts, t) ==
    [ts[t] EXCEPT !.seen_urls = UNION {ts[u].seen_urls : u \in DOMAIN ts}]

\* The locals of the scrape_group call of task t (lines 410-411)
TaskState(ts, t) == ts[t]

\* Mutant: the batch returns with the first task that ends.
GatherFirstCompleted(ts) == \E t \in DOMAIN ts : ts[t].pc = "done"

\* await asyncio.gather(*tasks) returns
GatherReady(ts) == \A t \in DOMAIN ts : ts[t].pc = "done"

\* No call of scrape_group is modelled step by step.
SingleIdle ==
    /\ pc = "idle"
    /\ target_url = TargetUrl
    /\ persist_cb = FALSE
    /\ window = [lo |-> 1, hi |-> 0]
    /\ playwright = "none" /\ browser = "none" /\ context = "none"
    /\ collected = <<>> /\ seen_urls = {}
    /\ cycle = 0 /\ before = 0 /\ no_growth_cycles = 0
    /\ calls = <<>>
    /\ caught = FALSE /\ reason = <<>> /\ propagating = FALSE
    /\ fault = NoFault
    /\ result = <<>>
    /\ nav_attempts = 0
    /\ completed = <<>>
    /\ last_change = 0
    /\ steps = <<>> /\ passes = 0 /\ ledger_at_start = 0

BatchInit ==
    /\ SingleIdle
    /\ MainIdle
    /\ NormIdle
    /\ UnitsIdle
    /\ \E n \in ScrollTimes : scroll_min = n /\ scroll_max = n
    /\ urls = BatchUrls
    /\ \E ps \in PageSets, ft \in 0..Len(BatchUrls), f \in RunFails, why \in Reasons :
          pages = [t \in 1..Len(BatchUrls) |->
                      [w |-> ps[t], fail |-> IF t = ft THEN f ELSE "none", reason |-> why]]
    /\ tasks = [t \in 1..Len(BatchUrls) |-> TaskStart]
    /\ batch_pc = "gather"
    /\ merged = <<>>

\* The event loop resumes one of the tasks that have not ended.
ScrapeOne ==
    /\ batch_pc = "gather"
    /\ \E t \in DOMAIN tasks :
          /\ tasks[t].pc # "done"
          /\ tasks' = [tasks EXCEPT ![t] = scrape_one(TaskState(tasks, t), urls[t], pages[t])]
    /\ UNCHANGED <<single, entry, norm, units, urls, pages, batch_pc, merged>>

\* batches = await asyncio.gather(*tasks); merged.extend(batch) for each
Gather ==
    /\ batch_pc = "gather"
    /\ GatherReady(tasks)
    /\ merged' = Flatten([t \in 1..Len(tasks) |-> tasks[t].rows])
    /\ batch_pc' = "returned"
    /\ UNCHANGED <<single, entry, norm, units, urls, pages, tasks>>

BatchNext ==
    \/ ScrapeOne
    \/ Gather

BatchSpec == BatchInit /\ [][BatchNext]_vars

---------------------------------------------------------------------------
(* The store (src/modules/database.py) *)

\* get_post_id: md5(url), kept as the URL it was computed from
get_post_id(url) == <<"md5", url>>

\* None, and the empty dict
None == <<>>

\* The document upsert_post writes for a new URL (lines 112-130)
NewDoc(post_data) ==
    [_id |-> get_post_id(post_data.url), url |-> post_data.url,
     raw_text |-> post_data.raw_text, status |-> "pending",
     comments |-> post_data.comments, comment_count |-> post_data.comment_count,
     source_type |-> post_data.source_type, analysis |-> None]

\* The existence test of line 109 answering yes whatever the collection holds
UpsertOverwrites(db, post_data) ==
    LET doc_id == get_post_id(post_data.url)
    IN  IF post_data.url = NoUrl THEN [store |-> db, raised |-> TRUE, doc_id |-> None]
        ELSE [store |-> [id \in DOMAIN db \cup {doc_id} |->
                            IF id = doc_id THEN NewDoc(post_data) ELSE db[id]],
              raised |-> FALSE, doc_id |-> doc_id]

\* upsert_post: [store, raised, doc_id]
upsert_post(db, post_data) ==
    LET doc_id == get_post_id(post_data.url)
    IN  IF post_data.url = NoUrl THEN [store |-> db, raised |-> TRUE, doc_id |-> None]
        ELSE IF doc_id \in DOMAIN db
        THEN [store |-> db, raised |-> FALSE, doc_id |-> doc_id]
        ELSE [store |-> [id \in DOMAIN db \cup {doc_id} |->
                            IF id = doc_id THEN NewDoc(post_data) ELSE db[id]],
              raised |-> FALSE, doc_id |-> doc_id]

\* The order in which a query streams documents
RECURSIVE SeqOf(_)
SeqOf(S) ==
    IF S = {} THEN <<>>
    ELSE LET x == CHOOSE y \in S : TRUE IN <<x>> \o SeqOf(S \ {x})

\* get_pending_posts: the documents with status pending, up to limit
get_pending_posts(db, limit) ==
    LET ids == SeqOf({id \in DOMAIN db : db[id].status = "pending"})
    IN  [i \in 1..Min(Len(ids), limit) |-> db[ids[i]]]

\* mark_post_processed: set(update_payload, merge=True)
mark_post_processed(db, doc_id, analysis, status) ==
    IF doc_id \in DOMAIN db
    THEN [db EXCEPT ![doc_id] = [@ EXCEPT !.status = status,
                                         !.analysis = IF analysis # None THEN analysis ELSE @]]
    ELSE [id \in DOMAIN db \cup {doc_id} |->
             IF id = doc_id THEN [status |-> status, analysis |-> analysis] ELSE db[id]]

---------------------------------------------------------------------------
(* Processing (src/modules/processor.py) *)

PROCESS_LIMIT == 25

\* What the model service does for a request: it fails, or it answers for
\* some of the posts.
Answers(posts) ==
    {[raised |-> TRUE, ids |-> {}]}
    \cup {[raised |-> FALSE, ids |-> S] : S \in SUBSET {posts[i]._id : i \in 1..Len(posts)}}

\* analyze_posts_with_gemini: [raised, by_id]; the key is looked up first
\* (lines 99-101), then an empty list is answered without a request.
analyze_posts_with_gemini(posts, gemini_key, answer) ==
    IF Strip(gemini_key) = <<>> THEN [raised |-> TRUE, by_id |-> <<>>]
    ELSE IF posts = <<>> THEN [raised |-> FALSE, by_id |-> <<>>]
    ELSE IF answer.raised THEN [raised |-> TRUE, by_id |-> <<>>]
    ELSE [raised |-> FALSE, by_id |-> [id \in answer.ids |-> <<"analysis", id>>]]

\* for post in pending: mark_post_processed(...), from index i on
RECURSIVE MarkEach(_, _, _, _)
MarkEach(db, pending, i, by_id) ==
    IF i > Len(pending) THEN db
    ELSE LET doc_id == pending[i]._id
             analysis == IF doc_id \in DOMAIN by_id THEN by_id[doc_id] ELSE None
         IN  MarkEach(mark_post_processed(db, doc_id, analysis,
                                          IF analysis # None THEN "processed" ELSE "error"),
                      pending, i + 1, by_id)

\* process_pending_posts: [store, updated]
process_pending_posts(db, gemini_key, answer, limit) ==
    LET pending == get_pending_posts(db, limit)
        a == analyze_posts_with_gemini(pending, gemini_key, answer)
    IN  IF pending = <<>> THEN [store |-> db, updated |-> 0]
        ELSE [store |-> MarkEach(db, pending, 1, IF a.raised THEN <<>> ELSE a.by_id),
              updated |-> Len(pending)]

---------------------------------------------------------------------------
(* main.run *)

\* The values of GEMINI_KEY: unset, blank, set.
GeminiKeys == {<<>>, <<" ">>, <<"k", "e", "y">>}

\* A document of an earlier run that is still pending, and the document of
\* post 7, processed earlier.
OldPending ==
    [_id |-> get_post_id(Link9), url |-> Link9, raw_text |-> TextC, status |-> "pending",
     comments |-> <<>>, comment_count |-> 0, source_type |-> "container_post",
     analysis |-> None]
OldProcessed ==
    [_id |-> get_post_id(_normalize_facebook_url(Link7Rel, TargetUrl)),
     url |-> _normalize_facebook_url(Link7Rel, TargetUrl), raw_text |-> TextA,
     status |-> "processed", comments |-> <<>>, comment_count |-> 0,
     source_type |-> "container_post", analysis |-> <<"analysis", "old">>]

Stores == {[id \in {d._id : d \in S} |-> CHOOSE d \in S : d._id = id] :
              S \in SUBSET {OldPending, OldProcessed}}

\* The pages a run of main.run finds.
MainWindows == {[lo |-> 1, hi |-> 0], [lo |-> 2, hi |-> 2], [lo |-> 2, hi |-> 3]}

\* What a call scrape_group(target_url, persist_cb = persist) does to its
\* caller: the records it passes to persist, and whether it raises.  The
\* records are those of a harvest pass over the page, or the page-level
\* record when there are none; a run whose navigation fails passes nothing.
ScrapeRuns ==
    {[calls |-> LET h == _harvest_visible_posts(w, TargetUrl, {}, <<>>, TRUE, NoFail)
                IN  IF h.calls = <<>>
                    THEN <<_collect_page_level_fallback(TargetUrl, w, TRUE, TRUE)>>
                    ELSE h.calls,
      raised |-> FALSE] : w \in MainWindows}
    \cup {[calls |-> <<>>, raised |-> FALSE], [calls |-> <<>>, raised |-> TRUE]}

\* persist(post) for each record, from index i on
RECURSIVE PersistEach(_, _, _)
PersistEach(db, posts, i) ==
    IF i > Len(posts) THEN db
    ELSE PersistEach(upsert_post(db, posts[i]).store, posts, i + 1)

MainInit ==
    /\ SingleIdle
    /\ BatchIdle
    /\ NormIdle
    /\ UnitsIdle
    /\ scroll_min = 5 /\ scroll_max = 10
    /\ env \in [TARGET_GROUP_URL : {NoUrl, TargetUrl}, GEMINI_KEY : GeminiKeys]
    /\ store0 \in Stores
    /\ store = store0
    /\ main_pc = "load_env"
    /\ db_inits = 0
    /\ scrape_begun = FALSE
    /\ main_error = ""

\* load_dotenv(); target_url = os.getenv(...); if not target_url: raise
MainLoadEnv ==
    /\ main_pc = "load_env"
    /\ IF env.TARGET_GROUP_URL = NoUrl
       THEN /\ main_pc' = "raised"
            /\ main_error' = "TARGET_GROUP_URL is not set."
       ELSE /\ main_pc' = "persist_factory"
            /\ UNCHANGED main_error
    /\ UNCHANGED <<single, batch, norm, units, env, store, store0, db_inits, scrape_begun>>

\* persist = _persist_factory(): db = init_db()
MainPersistFactory ==
    /\ main_pc = "persist_factory"
    /\ db_inits' = db_inits + 1
    /\ main_pc' = "scrape"
    /\ UNCHANGED <<single, batch, norm, units, env, store, store0, scrape_begun, main_error>>

\* scraped = await scrape_group(target_url=target_url, persist_cb=persist)
MainScrape ==
    /\ main_pc = "scrape"
    /\ scrape_begun' = TRUE
    /\ \E run \in ScrapeRuns :
          /\ store' = PersistEach(store, run.calls, 1)
          /\ IF run.raised
             THEN main_pc' = "raised" /\ main_error' = "scrape_group"
             ELSE main_pc' = "init_db" /\ UNCHANGED main_error
    /\ UNCHANGED <<single, batch, norm, units, env, store0, db_inits>>

\* db = init_db()
MainInitDb ==
    /\ main_pc = "init_db"
    /\ db_inits' = db_inits + 1
    /\ main_pc' = "process"
    /\ UNCHANGED <<single, batch, norm, units, env, store, store0, scrape_begun, main_error>>

\* processed = process_pending_posts(db, limit=25)
MainProcess ==
    /\ main_pc = "process"
    /\ \E answer \in Answers(get_pending_posts(store, PROCESS_LIMIT)) :
          store' = process_pending_posts(store, env.GEMINI_KEY, answer, PROCESS_LIMIT).store
    /\ main_pc' = "done"
    /\ UNCHANGED <<single, batch, norm, units, env, store0, db_inits, scrape_begun, main_error>>

MainNext ==
    \/ MainLoadEnv
    \/ MainPersistFactory
    \/ MainScrape
    \/ MainInitDb
    \/ MainProcess

MainSpec == MainInit /\ [][MainNext]_vars

---------------------------------------------------------------------------
(* _normalize_facebook_url on pairs of links *)

PostsPath == <<"/posts/7">>

AbsLink(path, query, fragment) == MkUrl("https", "fb.com", path, query, fragment)

\* The raw links: with and without tracking parameters, with the allow-listed
\* keys in either order, with a repeated key, with a blank value, with
\* escapes in a value, relative, with a fragment, with a trailing slash.
RawLinks ==
    {AbsLink(PostsPath, <<"story_fbid", "=", "7", "&", "ref", "=", "feed">>, <<>>),
     AbsLink(PostsPath, <<"story_fbid", "=", "7">>, <<>>),
     MkUrl("", "", PostsPath \o <<"/">>, <<"ref", "=", "feed", "&", "story_fbid", "=", "7">>,
           <<"top">>),
     AbsLink(PostsPath, <<"id", "=", "1", "&", "story_fbid", "=", "7">>, <<>>),
     AbsLink(PostsPath, <<"story_fbid", "=", "7", "&", "utm", "=", "x", "&", "id", "=", "1">>,
             <<"c">>),
     AbsLink(PostsPath, <<"id", "=", "1", "&", "id", "=", "2">>, <<>>),
     AbsLink(PostsPath, <<"id", "=", "2", "&", "id", "=", "1">>, <<>>),
     AbsLink(PostsPath, <<"id", "=", "&", "id", "=", "1">>, <<>>),
     AbsLink(PostsPath, <<"story_fbid", "=", "a", "%26", "b">>, <<>>),
     AbsLink(PostsPath, <<"id", "=", "a", "%3D", "b">>, <<>>),
     AbsLink(PostsPath, <<"id", "=", "%25", "2", "6">>, <<>>),
     AbsLink(<<"/posts/8", "/">>, <<>>, <<>>)}

NormInit ==
    /\ SingleIdle
    /\ scroll_min = 5 /\ scroll_max = 10
    /\ BatchIdle
    /\ MainIdle
    /\ UnitsIdle
    /\ norm_pc = "raw"
    /\ norm_base = TargetUrl
    /\ raw_a \in RawLinks
    /\ raw_b \in RawLinks
    /\ out_a = <<>> /\ out_b = <<>> /\ again_a = <<>>

\* _normalize_facebook_url(raw, base_url) for both links
Normalize ==
    /\ norm_pc = "raw"
    /\ out_a' = FormatUrl(_normalize_facebook_url(raw_a, norm_base))
    /\ out_b' = FormatUrl(_normalize_facebook_url(raw_b, norm_base))
    /\ norm_pc' = "normalized"
    /\ UNCHANGED <<single, batch, entry, units, norm_base, raw_a, raw_b, again_a>>

\* _normalize_facebook_url(out_a, base_url): the returned string is a link
Renormalize ==
    /\ norm_pc = "normalized"
    /\ again_a' = FormatUrl(_normalize_facebook_url(ParseUrl(out_a), norm_base))
    /\ norm_pc' = "renormalized"
    /\ UNCHANGED <<single, batch, entry, units, norm_base, raw_a, raw_b, out_a, out_b>>

NormNext ==
    \/ Normalize
    \/ Renormalize

NormSpec == NormInit /\ [][NormNext]_vars

---------------------------------------------------------------------------
(* _extract_comments on one container *)

\* What the rest of the module leaves alone while one function runs on its own.
elsewhere == <<single, batch, entry, norm, services>>

\* What the store and the analysis leave alone.
harvesting == <<single, batch, entry, norm, cm, settle, clicks, links, login>>

HarvestingIdle ==
    /\ SingleIdle
    /\ scroll_min = 5 /\ scroll_max = 10
    /\ BatchIdle /\ MainIdle /\ NormIdle
    /\ CmIdle /\ SettleIdle /\ ClicksIdle /\ LinksIdle /\ LoginIdle

\* The texts of the nodes a comment selector may match: a repetition of the
\* post body, a part of it, a comment, the same comment with blanks around
\* it, a text of two characters, a blank node, another comment.
NodeTexts ==
    {TextA, Rep("a", 5), <<"o", "k", "!">>, <<" ", "o", "k", "!", " ">>, <<"n", "o">>,
     <<" ">>, <<"y", "e", "s">>}

MaxNodes == 3

\* Thirteen comments, all different.
ManyComments == [k \in 1..(MAX_COMMENTS + 1) |-> Rep("z", k + 2)]

\* The first node is matched by the first comment selector, the others by
\* the fourth.
NodeLists ==
    {ManyComments} \cup UNION {[1..n -> NodeTexts] : n \in 0..MaxNodes}

CommentContainer(nodes) ==
    Region(TextA, <<>>,
           <<SubSeq(nodes, 1, Min(1, Len(nodes))), <<>>, <<>>, SubSeq(nodes, 2, Len(nodes))>>,
           {1})

MaxCommentArgs == {1, 2, MAX_COMMENTS}

CommentInit ==
    /\ SingleIdle
    /\ scroll_min = 5 /\ scroll_max = 10
    /\ BatchIdle /\ MainIdle /\ NormIdle /\ ServicesIdle
    /\ SettleIdle /\ ClicksIdle /\ LinksIdle /\ LoginIdle
    /\ cm_pc = "call"
    /\ \E nodes \in NodeLists : cm_container = CommentContainer(nodes)
    /\ cm_raw_text = Strip(TextA)
    /\ cm_max \in MaxCommentArgs
    /\ cm_out = <<>>

\* comments = await _extract_comments(container, raw_text, max_comments)
ExtractComments ==
    /\ cm_pc = "call"
    /\ cm_out' = _extract_comments(cm_container, cm_raw_text, cm_max)
    /\ cm_pc' = "returned"
    /\ UNCHANGED <<elsewhere, settle, clicks, links, login, cm_container, cm_raw_text, cm_max>>

CommentNext == ExtractComments

CommentSpec == CommentInit /\ [][CommentNext]_vars

---------------------------------------------------------------------------
(* _wait_for_feed_settle on a page *)

\* The six selectors of _get_feed_signal_count.
SignalSelectors == 1..6

\* _get_feed_signal_count: the matches of the selectors whose count() returns
RECURSIVE SignalTotal(_, _, _)
SignalTotal(counts, failing, sel) ==
    IF sel > 6 THEN 0
    ELSE (IF sel \in failing THEN 0 ELSE counts[sel]) + SignalTotal(counts, failing, sel + 1)

_get_feed_signal_count(counts, failing) == SignalTotal(counts, failing, 1)

\* Mutant: a poll that finds a change leaves the count of stable polls alone.
StableAfterNoReset(height, signal, lh, ls, stable) ==
    IF height = lh /\ signal = ls THEN stable + 1 ELSE stable

\* lines 320-325: stable_rounds after a poll
StableAfter(height, signal, lh, ls, stable) ==
    IF height = lh /\ signal = ls THEN stable + 1 ELSE 0

\* document.body.scrollHeight of the page
Heights == {10, 20}
\* The matches of each selector on the page
SignalCounts == {[sel \in SignalSelectors |-> 1],
                 [sel \in SignalSelectors |-> IF sel = 1 THEN 2 ELSE 1]}
\* The selectors whose count() raises at a poll
FailingSelectors == {{}, {1}, SignalSelectors}

MaxRounds == 3

SettleInit ==
    /\ SingleIdle
    /\ scroll_min = 5 /\ scroll_max = 10
    /\ BatchIdle /\ MainIdle /\ NormIdle /\ ServicesIdle
    /\ CmIdle /\ ClicksIdle /\ LinksIdle /\ LoginIdle
    /\ settle_pc = "call"
    /\ rounds \in 0..MaxRounds
    /\ polls = 0
    /\ last_height = -1 /\ last_signal = -1 /\ stable_rounds = 0
    /\ doc_height = -1 /\ doc_signal = -1 /\ doc_stable = 0

\* lines 310-313: the locals, and the loop entered or passed over
SettleEnter ==
    /\ settle_pc = "call"
    /\ settle_pc' = IF rounds * 2 > 0 THEN "poll" ELSE "returned"
    /\ UNCHANGED <<elsewhere, cm, clicks, links, login, rounds, polls, last_height,
                   last_signal, stable_rounds, doc_height, doc_signal, doc_stable>>

\* One iteration of for _ in range(rounds * 2), on a page of height h whose
\* selectors match counts; ok: page.evaluate returned.
SettlePoll ==
    /\ settle_pc = "poll"
    /\ polls < rounds * 2
    /\ \E h \in Heights, ok \in BOOLEAN, counts \in SignalCounts, failing \in FailingSelectors :
          LET height == IF ok THEN h ELSE last_height
              signal == _get_feed_signal_count(counts, failing)
              stable == StableAfter(height, signal, last_height, last_signal, stable_rounds)
              break  == height = last_height /\ signal = last_signal /\ stable >= rounds
              doc    == _get_feed_signal_count(counts, {})
          IN  /\ stable_rounds' = stable
              /\ IF break THEN UNCHANGED <<last_height, last_signal>>
                 ELSE last_height' = height /\ last_signal' = signal
              /\ settle_pc' = IF break \/ polls + 1 >= rounds * 2 THEN "returned" ELSE "poll"
              /\ doc_stable' = IF h = doc_height /\ doc = doc_signal THEN doc_stable + 1 ELSE 0
              /\ doc_height' = h
              /\ doc_signal' = doc
    /\ polls' = polls + 1
    /\ UNCHANGED <<elsewhere, cm, clicks, links, login, rounds>>

SettleNext ==
    \/ SettleEnter
    \/ SettlePoll

SettleSpec == SettleInit /\ [][SettleNext]_vars

---------------------------------------------------------------------------
(* _collect_from_permalink_links on a page *)

\* The anchors link_selector may match: two links to post 7, a link to a
\* video without text, an anchor without href, an anchor whose href does
\* not normalize.
LinkAnchors ==
    {Anchor({1}, TRUE, TRUE, Link7Rel, <<" ", "7", " ">>),
     Anchor({3}, TRUE, TRUE, Link7Abs, <<"7">>),
     Anchor({5}, TRUE, TRUE, Link9, <<>>),
     Anchor({1}, FALSE, TRUE, NoUrl, <<"g">>),
     Anchor({2}, TRUE, FALSE, NoUrl, <<>>)}

MaxAnchors == 3

\* A page with one link more than the function looks at: 250 links to post
\* 7, then the link to the video.
LongPage ==
    [k \in 1..(MAX_LINKS + 1) |->
        IF k > MAX_LINKS THEN Anchor({5}, TRUE, TRUE, Link9, <<>>)
        ELSE IF k % 2 = 1 THEN Anchor({1}, TRUE, TRUE, Link7Rel, <<" ", "7", " ">>)
        ELSE Anchor({3}, TRUE, TRUE, Link7Abs, <<"7">>)]

LinkPages == {LongPage} \cup UNION {[1..n -> LinkAnchors] : n \in 0..MaxAnchors}

\* The ledger at the call: empty, or holding the video already.
LinkLedgers == {{}, {_normalize_facebook_url(Link9, TargetUrl)}}

\* The calls on the first link that may raise, and links.count().
LinkPageFails ==
    {NoFail, [loc |-> 0, idx |-> 0, stage |-> "count"]}
    \cup {[loc |-> 0, idx |-> 0, stage |-> st] : st \in LinkStages}

LinksInit ==
    /\ SingleIdle
    /\ scroll_min = 5 /\ scroll_max = 10
    /\ BatchIdle /\ MainIdle /\ NormIdle /\ ServicesIdle
    /\ CmIdle /\ SettleIdle /\ ClicksIdle /\ LoginIdle
    /\ link_pc = "call"
    /\ link_list \in LinkPages
    /\ link_seen0 \in LinkLedgers
    /\ link_cb \in BOOLEAN
    /\ link_out = <<>>

\* await _collect_from_permalink_links(page, target_url, seen_urls, persist_cb)
CollectFromPermalinkLinks ==
    /\ link_pc = "call"
    /\ \E f \in LinkPageFails :
          \E out \in {CollectLinks(link_list, TargetUrl, link_seen0, <<>>, link_cb, f)} :
              /\ link_out' = out
              /\ link_pc' = IF out.raised THEN "raised" ELSE "returned"
    /\ UNCHANGED <<elsewhere, cm, settle, clicks, login, link_list, link_seen0, link_cb>>

LinksNext == CollectFromPermalinkLinks

LinksSpec == LinksInit /\ [][LinksNext]_vars

---------------------------------------------------------------------------
(* The click loops of _extract_comments and _click_expand_controls *)

\* The most controls clicked per selector, and the number of selectors.
COMMENT_CLICKS == 3
COMMENT_EXPANDERS == 5
PAGE_CLICKS == 8
PAGE_EXPANDERS == 4

\* Mutant: every control that matches is clicked.
ClickCountAll(matches, limit) == matches

\* count = min(await buttons.count(), limit)
ClickCount(matches, limit) == Min(matches, limit)

\* The controls a selector may match: none, fewer than either limit, more.
ButtonCounts == {0, 2, 9}

ClicksInit ==
    /\ SingleIdle
    /\ scroll_min = 5 /\ scroll_max = 10
    /\ BatchIdle /\ MainIdle /\ NormIdle /\ ServicesIdle
    /\ CmIdle /\ SettleIdle /\ LinksIdle /\ LoginIdle
    /\ click_pc = "count"
    /\ \/ click_limit = COMMENT_CLICKS /\ click_buttons \in [1..COMMENT_EXPANDERS -> ButtonCounts]
       \/ click_limit = PAGE_CLICKS /\ click_buttons \in [1..PAGE_EXPANDERS -> ButtonCounts]
    /\ click_sel = 1 /\ click_i = 0 /\ click_count = 0
    /\ click_attempts = [sel \in DOMAIN click_buttons |-> 0]
    /\ click_failed = 0

\* The loop over the selectors goes on with the selector after click_sel.
NextSelector ==
    IF click_sel < Len(click_buttons)
    THEN click_pc' = "count" /\ click_sel' = click_sel + 1
    ELSE click_pc' = "returned" /\ click_sel' = click_sel

\* buttons = container.locator(selector); count = min(await buttons.count(), limit):
\* count() returns or raises, and nothing catches what it raises.
CountButtons ==
    /\ click_pc = "count"
    /\ \/ \E n \in {ClickCount(click_buttons[click_sel], click_limit)} :
             /\ click_count' = n
             /\ click_i' = 0
             /\ IF n > 0 THEN click_pc' = "click" /\ click_sel' = click_sel
                ELSE NextSelector
       \/ /\ click_pc' = "raised"
          /\ UNCHANGED <<click_sel, click_i, click_count>>
    /\ UNCHANGED <<elsewhere, cm, settle, links, login, click_limit, click_buttons,
                   click_attempts, click_failed>>

\* One iteration of for i in range(count): the click returns, or it raises
\* and the except clause goes on with the next control.
ClickButton ==
    /\ click_pc = "click"
    /\ click_i < click_count
    /\ click_attempts' = [click_attempts EXCEPT ![click_sel] = @ + 1]
    /\ \E ok \in BOOLEAN : click_failed' = IF ok THEN click_failed ELSE click_failed + 1
    /\ click_i' = click_i + 1
    /\ IF click_i + 1 < click_count THEN UNCHANGED <<click_pc, click_sel>>
       ELSE NextSelector
    /\ UNCHANGED <<elsewhere, cm, settle, links, login, click_limit, click_buttons, click_count>>

ClicksNext ==
    \/ CountButtons
    \/ ClickButton

ClicksSpec == ClicksInit /\ [][ClicksNext]_vars

---------------------------------------------------------------------------
(* _capture_facebook_storage_state._runner (src/dashboard.py) *)

Cookie(name, domain) == [name |-> name, domain |-> domain]

\* The cookies the browser context may hold while the user acts in the
\* opened window: the login cookie of Facebook, another cookie of Facebook,
\* and cookies named c_user of example.com and of notfacebook.com.
Cookies ==
    {Cookie("c_user", <<".", "facebook.com">>),
     Cookie("datr", <<".", "facebook.com">>),
     Cookie("c_user", <<"example.com">>),
     Cookie("c_user", <<"not", "facebook.com">>)}

\* cookie.get("name") == "c_user" and "facebook.com" in cookie.get("domain", "")
LoginCookie(cookie) ==
    cookie.name = "c_user" /\ IsSubstring(<<"facebook.com">>, cookie.domain)

\* timeout_seconds
LoginTimeouts == {0, 2, 3}

TimeoutMessage ==
    "Facebook login not detected before timeout. Please log in in the opened browser, then retry."

\* The state after page.goto and deadline = time.time() + timeout_seconds,
\* the clock counting from there: a new context that has loaded the login
\* page of Facebook.
LoginInit ==
    /\ SingleIdle
    /\ scroll_min = 5 /\ scroll_max = 10
    /\ BatchIdle /\ MainIdle /\ NormIdle /\ ServicesIdle
    /\ CmIdle /\ SettleIdle /\ ClicksIdle /\ LinksIdle
    /\ login_pc = "while"
    /\ clock = 0
    /\ deadline \in LoginTimeouts
    /\ jar \in SUBSET {Cookie("datr", <<".", "facebook.com">>)}
    /\ logged_in = FALSE /\ saved = FALSE
    /\ login_browser = "open"
    /\ login_error = ""
    /\ signal_seen = FALSE

\* while time.time() < deadline
LoginWhile ==
    /\ login_pc = "while"
    /\ login_pc' = IF clock < deadline THEN "cookies" ELSE "after"
    /\ UNCHANGED <<elsewhere, cm, settle, clicks, links, clock, deadline, jar, logged_in,
                   saved, login_browser, login_error, signal_seen>>

\* cookies = await context.cookies(), which takes some time, and the test
LoginCookies ==
    /\ login_pc = "cookies"
    /\ clock' \in {clock, clock + 1}
    /\ IF \E cookie \in jar : LoginCookie(cookie)
       THEN logged_in' = TRUE /\ login_pc' = "after"
       ELSE logged_in' = logged_in /\ login_pc' = "wait"
    /\ signal_seen' =
          (signal_seen \/ \E cookie \in jar :
                             /\ cookie.name = "c_user"
                             /\ cookie.domain \in {<<"facebook.com">>, <<".", "facebook.com">>})
    /\ UNCHANGED <<elsewhere, cm, settle, clicks, links, deadline, jar, saved, login_browser,
                   login_error>>

\* await page.wait_for_timeout(1000), while the user acts in the window
LoginWait ==
    /\ login_pc = "wait"
    /\ clock' = clock + 1
    /\ jar' \in SUBSET Cookies
    /\ login_pc' = "while"
    /\ UNCHANGED <<elsewhere, cm, settle, clicks, links, deadline, logged_in, saved,
                   login_browser, login_error, signal_seen>>

\* if not logged_in: close and raise; else await context.storage_state(path)
LoginAfter ==
    /\ login_pc = "after"
    /\ IF ~logged_in
       THEN /\ login_browser' = "closed"
            /\ login_error' = TimeoutMessage
            /\ login_pc' = "raised"
            /\ UNCHANGED saved
       ELSE /\ saved' = TRUE
            /\ login_pc' = "close"
            /\ UNCHANGED <<login_browser, login_error>>
    /\ UNCHANGED <<elsewhere, cm, settle, clicks, links, clock, deadline, jar, logged_in,
                   signal_seen>>

\* await browser.close(); return str(output)
LoginClose ==
    /\ login_pc = "close"
    /\ login_browser' = "closed"
    /\ login_pc' = "returned"
    /\ UNCHANGED <<elsewhere, cm, settle, clicks, links, clock, deadline, jar, logged_in,
                   saved, login_error, signal_seen>>

LoginNext ==
    \/ LoginWhile
    \/ LoginCookies
    \/ LoginWait
    \/ LoginAfter
    \/ LoginClose

LoginSpec == LoginInit /\ [][LoginNext]_vars

---------------------------------------------------------------------------
(* process_pending_posts on a store *)

\* A document upsert_post wrote and no run has processed yet.
PendingDoc(url, text) ==
    [_id |-> get_post_id(url), url |-> url, raw_text |-> text, status |-> "pending",
     comments |-> <<>>, comment_count |-> 0, source_type |-> "container_post",
     analysis |-> None]

ProcDocs == {OldPending, PendingDoc(Url2, TextA), PendingDoc(Url3, TextB), OldProcessed}

ProcStores == {[id \in {d._id : d \in S} |-> CHOOSE d \in S : d._id = id] :
                  S \in SUBSET ProcDocs}

ProcLimits == {2, PROCESS_LIMIT}

ProcInit ==
    /\ HarvestingIdle
    /\ GemIdle /\ UpsIdle
    /\ proc_pc = "fetch"
    /\ proc_db \in ProcStores
    /\ proc_key \in GeminiKeys
    /\ proc_limit \in ProcLimits
    /\ proc_pending = <<>> /\ proc_by_id = <<>> /\ proc_i = 0
    /\ proc_updated = 0 /\ proc_marks = <<>> /\ proc_ret = -1

\* pending = get_pending_posts(db, limit=limit); if not pending: return 0;
\* updated = 0
ProcFetch ==
    /\ proc_pc = "fetch"
    /\ proc_pending' = get_pending_posts(proc_db, proc_limit)
    /\ proc_marks' = [id \in {proc_pending'[i]._id : i \in 1..Len(proc_pending')} |-> <<>>]
    /\ IF proc_pending' = <<>>
       THEN proc_pc' = "returned" /\ proc_ret' = 0
       ELSE proc_pc' = "analyze" /\ UNCHANGED proc_ret
    /\ UNCHANGED <<harvesting, gem, ups, proc_db, proc_key, proc_limit, proc_by_id, proc_i, proc_updated>>

\* by_id = analyze_posts_with_gemini(pending), inside the try statement
ProcAnalyze ==
    /\ proc_pc = "analyze"
    /\ \E answer \in Answers(proc_pending) :
          proc_by_id' = analyze_posts_with_gemini(proc_pending, proc_key, answer)
    /\ proc_pc' = IF proc_by_id'.raised THEN "except" ELSE "try"
    /\ proc_i' = 1
    /\ UNCHANGED <<harvesting, gem, ups, proc_db, proc_key, proc_limit, proc_pending, proc_updated,
                   proc_marks, proc_ret>>

\* The status the loop of the try statement writes for a post (lines 191-195)
TryStatus(by_id, doc_id) ==
    IF doc_id \in DOMAIN by_id /\ by_id[doc_id] # None THEN "processed" ELSE "error"

\* One iteration of the loop of the try statement (lines 189-196): the write
\* is made, or it raises and the except clause is entered.
ProcTryMark ==
    /\ proc_pc = "try"
    /\ LET doc_id == proc_pending[proc_i]._id
           status == TryStatus(proc_by_id.by_id, doc_id)
       IN  \E written \in BOOLEAN :
              IF written
              THEN /\ proc_db' = mark_post_processed(
                                     proc_db, doc_id,
                                     IF status = "processed" THEN proc_by_id.by_id[doc_id]
                                     ELSE None,
                                     status)
                   /\ proc_marks' = [proc_marks EXCEPT ![doc_id] = Append(@, status)]
                   /\ proc_updated' = proc_updated + 1
                   /\ IF proc_i = Len(proc_pending)
                      THEN proc_pc' = "returned" /\ proc_ret' = proc_updated'
                                /\ UNCHANGED proc_i
                      ELSE proc_i' = proc_i + 1 /\ UNCHANGED <<proc_pc, proc_ret>>
              ELSE /\ proc_pc' = "except"
                   /\ proc_i' = 1
                   /\ UNCHANGED <<proc_db, proc_marks, proc_updated, proc_ret>>
    /\ UNCHANGED <<harvesting, gem, ups, proc_key, proc_limit, proc_pending, proc_by_id>>

\* One iteration of the loop of the except clause (lines 198-200): the write
\* is made, or it raises and the exception leaves process_pending_posts.
ProcExceptMark ==
    /\ proc_pc = "except"
    /\ LET doc_id == proc_pending[proc_i]._id
       IN  \E written \in BOOLEAN :
              IF written
              THEN /\ proc_db' = mark_post_processed(proc_db, doc_id, None, "error")
                   /\ proc_marks' = [proc_marks EXCEPT ![doc_id] = Append(@, "error")]
                   /\ proc_updated' = proc_updated + 1
                   /\ IF proc_i = Len(proc_pending)
                      THEN proc_pc' = "returned" /\ proc_ret' = proc_updated'
                                /\ UNCHANGED proc_i
                      ELSE proc_i' = proc_i + 1 /\ UNCHANGED <<proc_pc, proc_ret>>
              ELSE /\ proc_pc' = "raised"
                   /\ UNCHANGED <<proc_db, proc_marks, proc_updated, proc_ret, proc_i>>
    /\ UNCHANGED <<harvesting, gem, ups, proc_key, proc_limit, proc_pending, proc_by_id>>

ProcNext ==
    \/ ProcFetch
    \/ ProcAnalyze
    \/ ProcTryMark
    \/ ProcExceptMark

ProcSpec == ProcInit /\ [][ProcNext]_vars

---------------------------------------------------------------------------
(* analyze_posts_with_gemini on a batch *)

MAX_RETRIES == 5
INITIAL_BACKOFF_S == 2

\* str.lower() on the words of the messages below
Lower(s) ==
    [i \in 1..Len(s) |-> CASE s[i] = "Resource" -> "resource"
                           [] s[i] = "ResourceExhausted" -> "resourceexhausted"
                           [] s[i] = "Quota" -> "quota"
                           [] s[i] = "Internal" -> "internal"
                           [] s[i] = "API" -> "api"
                           [] OTHER -> s[i]]

\* _is_rate_limit_error(exc), exc given by str(exc)
_is_rate_limit_error(exc) ==
    LET msg == Lower(exc)
    IN  \/ IsSubstring(<<"429">>, msg)
        \/ IsSubstring(<<"resource", " ", "exhausted">>, msg)
        \/ IsSubstring(<<"resourceexhausted">>, msg)

BackoffLinear(attempt) == INITIAL_BACKOFF_S * attempt

\* wait = INITIAL_BACKOFF_S * (2 ** (attempt - 1))
Backoff(attempt) == INITIAL_BACKOFF_S * (2 ^ (attempt - 1))

\* The exceptions model.generate_content raises: the service refused the
\* request for its rate,
RateLimitMessages ==
    {<<"429", " ", "Quota", " ", "exceeded">>,
     <<"Resource", " ", "exhausted">>,
     <<"ResourceExhausted", ":", " ", "quota">>}

\* or it failed otherwise.
OtherMessages ==
    {<<"500", " ", "Internal", " ", "error">>, <<"API", " ", "key", " ", "not", " ", "valid">>}

\* index_map (lines 114-116): post_N, or the key itself when it is none
IndexKey(n) == <<"post_", n>>

IndexMapGet(posts, returned_key) ==
    IF \E n \in 1..Len(posts) : returned_key = IndexKey(n)
    THEN posts[CHOOSE n \in 1..Len(posts) : returned_key = IndexKey(n)]._id
    ELSE returned_key

\* out[real_id] = item
Put(out, real_id, item) ==
    [k \in DOMAIN out \cup {real_id} |-> IF k = real_id THEN item ELSE out[k]]

\* for item in results (lines 153-159), from index i on
RECURSIVE KeyResults(_, _, _, _)
KeyResults(results, i, posts, out) ==
    IF i > Len(results) THEN out
    ELSE LET item == results[i]
             real_id == IndexMapGet(posts, item._id)
         IN  KeyResults(results, i + 1, posts,
                        IF ~item.dict THEN out
                        ELSE Put(out, real_id, [item EXCEPT !._id = real_id]))

\* for item, post in zip(results, posts) (lines 164-168), from index i on
RECURSIVE ZipResults(_, _, _, _)
ZipResults(results, i, posts, out) ==
    IF i > Min(Len(results), Len(posts)) THEN out
    ELSE LET item == results[i]
             real_id == posts[i]._id
         IN  ZipResults(results, i + 1, posts,
                        IF item.dict THEN Put(out, real_id, [item EXCEPT !._id = real_id])
                        ELSE out)

\* Lines 151-171: the mapping returned for the parsed results
MapResults(results, posts) ==
    LET out == KeyResults(results, 1, posts, <<>>)
    IN  IF out = <<>> /\ Len(results) = Len(posts)
        THEN ZipResults(results, 1, posts, <<>>)
        ELSE out

MaxResults == 2

\* The batches: up to two pending posts.
GemBatches ==
    {<<>>, <<PendingDoc(Url2, TextA)>>, <<PendingDoc(Url2, TextA), PendingDoc(Url3, TextB)>>}

\* No "_id" in a result
NoKey == <<>>

\* The keys the model may give a result: the index keys it was sent, an
\* index key it was not sent, the document ids, a key of its own, none.
ReturnedKeys(posts) ==
    {IndexKey(n) : n \in 1..(Len(posts) + 1)}
    \cup {posts[n]._id : n \in 1..Len(posts)}
    \cup {<<"id", "x">>, NoKey}

\* The elements of "results": objects, and a string in the place of one.
Items(posts) ==
    {[dict |-> TRUE, _id |-> k] : k \in ReturnedKeys(posts)}
    \cup {[dict |-> FALSE, _id |-> NoKey]}

\* What the model answers: text that holds no JSON object, or a list of results.
Responses(posts) ==
    {[json |-> FALSE, results |-> <<>>]}
    \cup {[json |-> TRUE, results |-> r] :
             r \in UNION {[1..n -> Items(posts)] : n \in 0..MaxResults}}

GemInit ==
    /\ HarvestingIdle
    /\ ProcIdle /\ UpsIdle
    /\ gem_pc = "start"
    /\ gem_key \in GeminiKeys
    /\ gem_posts \in GemBatches
    /\ gem_attempt = 0 /\ gem_calls = 0 /\ gem_waits = <<>> /\ gem_errors = <<>>
    /\ gem_exc = <<>> /\ gem_response = <<>> /\ gem_out = <<>>

\* Lines 99-122: the key is required, an empty batch is answered at once
GemStart ==
    /\ gem_pc = "start"
    /\ IF Strip(gem_key) = <<>>
       THEN /\ gem_pc' = "raised"
            /\ gem_exc' = <<"GEMINI_KEY is not set.">>
            /\ UNCHANGED gem_attempt
       ELSE IF gem_posts = <<>>
       THEN /\ gem_pc' = "returned"
            /\ UNCHANGED <<gem_exc, gem_attempt>>
       ELSE /\ gem_pc' = "call"
            /\ gem_attempt' = 1
            /\ UNCHANGED gem_exc
    /\ UNCHANGED <<harvesting, proc, ups, gem_key, gem_posts, gem_calls, gem_waits, gem_errors,
                   gem_response, gem_out>>

\* One iteration of the retry loop (lines 126-145): the call answers, or it
\* raises and the function sleeps before the next attempt, or re-raises.
\* Every iteration ends in break, in raise or in a next iteration, and the
\* last one cannot end in a next iteration: the else clause of the loop
\* (lines 142-145) is never entered.
GemCall ==
    /\ gem_pc = "call"
    /\ gem_attempt <= MAX_RETRIES
    /\ gem_calls' = gem_calls + 1
    /\ \/ /\ gem_response' \in Responses(gem_posts)
          /\ gem_pc' = "parse"
          /\ UNCHANGED <<gem_attempt, gem_waits, gem_errors, gem_exc>>
       \/ \E exc \in RateLimitMessages \cup OtherMessages :
             /\ gem_errors' = Append(gem_errors, exc)
             /\ IF _is_rate_limit_error(exc) /\ gem_attempt < MAX_RETRIES
                THEN /\ gem_waits' = Append(gem_waits, Backoff(gem_attempt))
                     /\ gem_attempt' = gem_attempt + 1
                     /\ UNCHANGED <<gem_pc, gem_exc>>
                ELSE /\ gem_pc' = "raised"
                     /\ gem_exc' = exc
                     /\ UNCHANGED <<gem_attempt, gem_waits>>
             /\ UNCHANGED gem_response
    /\ UNCHANGED <<harvesting, proc, ups, gem_key, gem_posts, gem_out>>

\* Lines 147-171: the answer is parsed and its results are keyed
GemMap ==
    /\ gem_pc = "parse"
    /\ IF gem_response.json
       THEN /\ gem_out' = MapResults(gem_response.results, gem_posts)
            /\ gem_pc' = "returned"
            /\ UNCHANGED gem_exc
       ELSE /\ gem_pc' = "raised"
            /\ gem_exc' = <<"Gemini response does not contain a JSON object.">>
            /\ UNCHANGED gem_out
    /\ UNCHANGED <<harvesting, proc, ups, gem_key, gem_posts, gem_attempt, gem_calls, gem_waits,
                   gem_errors, gem_response>>

GemNext ==
    \/ GemStart
    \/ GemCall
    \/ GemMap

GemSpec == GemInit /\ [][GemNext]_vars

---------------------------------------------------------------------------
(* upsert_post and mark_post_processed on a store *)

\* Calls made on the store
MaxOps == 3

\* The records persisted: without a URL, of a new URL, of the URL of a
\* document of an earlier run; the same post is scraped with one text or
\* another, by one strategy or another.
UpsertRecords ==
    {[url |-> u, raw_text |-> t, comments |-> <<>>, comment_count |-> 0,
      source_type |-> st] :
        u \in {NoUrl, Url2, OldProcessed.url}, t \in {TextA, TextB},
        st \in {"container_post", "permalink_fallback"}}

UpsInit ==
    /\ HarvestingIdle
    /\ ProcIdle /\ GemIdle
    /\ ups_pc = "open"
    /\ ups_db \in {<<>>, [id \in {OldProcessed._id} |-> OldProcessed]}
    /\ ups_seen = {ups_db[id].url : id \in DOMAIN ups_db}
    /\ ups_ids = [u \in ups_seen |-> get_post_id(u)]
    /\ ups_ops = 0
    /\ ups_op = <<>>

\* upsert_post(db, post_data)
StoreUpsert ==
    /\ ups_pc = "open"
    /\ ups_ops < MaxOps
    /\ \E post_data \in UpsertRecords :
          LET r == upsert_post(ups_db, post_data)
          IN  /\ ups_db' = r.store
              /\ ups_op' = [kind |-> "upsert", post_data |-> post_data,
                            raised |-> r.raised, ret |-> r.doc_id,
                            repeat |-> post_data.url \in ups_seen]
              /\ IF r.raised \/ post_data.url \in ups_seen
                 THEN UNCHANGED <<ups_seen, ups_ids>>
                 ELSE /\ ups_seen' = ups_seen \cup {post_data.url}
                      /\ ups_ids' = [u \in ups_seen' |->
                                        IF u = post_data.url THEN r.doc_id ELSE ups_ids[u]]
    /\ ups_ops' = ups_ops + 1
    /\ UNCHANGED <<harvesting, proc, gem, ups_pc>>

\* mark_post_processed(db, doc_id, analysis, status), as process_pending_posts
\* calls it for a pending post
StoreMark ==
    /\ ups_pc = "open"
    /\ ups_ops < MaxOps
    /\ \E doc_id \in {id \in DOMAIN ups_db : ups_db[id].status = "pending"},
          status \in {"processed", "error"} :
          /\ ups_db' = mark_post_processed(
                           ups_db, doc_id,
                           IF status = "processed" THEN <<"analysis", doc_id>> ELSE None,
                           status)
          /\ ups_op' = [kind |-> "mark", post_data |-> ups_db[doc_id], raised |-> FALSE,
                        ret |-> None, repeat |-> FALSE]
    /\ ups_ops' = ups_ops + 1
    /\ UNCHANGED <<harvesting, proc, gem, ups_pc, ups_seen, ups_ids>>

UpsNext ==
    \/ StoreUpsert
    \/ StoreMark

UpsSpec == UpsInit /\ [][UpsNext]_vars

---------------------------------------------------------------------------
(* Properties of scrape_group *)

Finished == pc \in {"returned", "raised"}

InCycle == pc \in {"harvest1", "click", "scroll", "settle", "harvest2"}

Tags(list) == {list[i].source_type : i \in 1..Len(list)}

\* a is b with some of its elements left out
RECURSIVE IsSubseq(_, _)
IsSubseq(a, b) ==
    IF a = <<>> THEN TRUE
    ELSE IF b = <<>> THEN FALSE
    ELSE IF Head(a) = Head(b) THEN IsSubseq(Tail(a), Tail(b))
    ELSE IsSubseq(a, Tail(b))

\* C1: every call of scrape_group returns a list of at least one record and
\* never raises, whichever call on the rendering surface fails.
C1_AlwaysReturnsNonEmpty ==
    /\ pc # "raised"
    /\ pc = "returned" => Len(result) >= 1

\* C2: the identity URLs of the records a run has collected, and of those it
\* returns, are pairwise distinct.
C2_DistinctIdentities ==
    /\ \A i, j \in 1..Len(collected) : i # j => collected[i].url # collected[j].url
    /\ \A i, j \in 1..Len(result) : i # j => result[i].url # result[j].url

\* A run returned several records; post 7 was collected from its first
\* rendering and its second rendering, under another link, is on the page.
C2_Witness ==
    /\ pc = "returned" /\ ~caught
    /\ Len(result) >= 2
    /\ \E i \in 1..Len(result) : result[i].raw_text = TextA
    /\ \E i \in window.lo..window.hi : Feed[i] = PostC

\* C3: on every exit path both the browsing context and the browser that
\* were opened are closed when the result is returned or the exception leaves.
C3_SessionReleased ==
    Finished => browser # "open" /\ context # "open"

\* C4 as claimed: once the page has stopped changing after cycle k, the loop
\* ends within k + 3 cycles and within the cap, whatever scroll_min is.  k is
\* the last cycle in which the page changed, and 1 for a page that never
\* changed (the first cycle is the one that sees the page as loaded).
C4_WithinKPlusThreshold ==
    pc = "final_harvest" =>
        /\ cycle <= Max(last_change, 1) + 3
        /\ cycle <= Max(Max(1, scroll_min), scroll_max + 6)

\* C4 as amended: the loop ends within max(max(1, scroll_min), k + 3) cycles
\* (k as above) and within the cap.
C4_WithinMinOrKPlusThreshold ==
    pc = "final_harvest" =>
        /\ cycle <= Max(Max(1, scroll_min), Max(last_change, 1) + 3)
        /\ cycle <= Max(Max(1, scroll_min), scroll_max + 6)

\* The page changed last in cycle k and the loop ended by the stall rule at
\* cycle k + 3, after the minimum and before the cap.
C4_Witness ==
    /\ pc = "final_harvest"
    /\ last_change >= 1
    /\ cycle = last_change + 3
    /\ cycle > Max(1, scroll_min)
    /\ cycle < Max(Max(1, scroll_min), scroll_max + 6)

\* C5: the loop is left at the first cycle c with (c >= max(1, scroll_min)
\* and no-growth counter >= 3) or c = max(max(1, scroll_min), scroll_max + 6):
\* no further cycle runs after such a c, and without an exception the loop
\* is not left before.
C5_StopsAtFirstStopCycle ==
    LET stop_here == \/ cycle >= Max(1, scroll_min) /\ no_growth_cycles >= 3
                     \/ cycle = Max(Max(1, scroll_min), scroll_max + 6)
    IN  /\ InCycle /\ cycle >= 1 => ~stop_here
        /\ pc = "final_harvest" => stop_here

\* The loop was left by the stall rule, after more cycles than the minimum
\* and before the cap.
C5_Witness ==
    /\ pc = "final_harvest"
    /\ no_growth_cycles >= 3
    /\ cycle > Max(1, scroll_min)
    /\ cycle < Max(Max(1, scroll_min), scroll_max + 6)

EmergencyCount(list) ==
    Cardinality({i \in 1..Len(list) : list[i].source_type = "emergency_fallback"})

C7_NoCollectedRecordLost ==
    pc = "returned" => IsSubseq(completed, result)

\* C8: _goto_with_resilient_wait never raises.
C8_NavigationNeverRaises ==
    fault # "goto"

\* C9: an exception raised while one region is extracted (its inner text, its
\* permalink, its comments) is caught there: it never ends the harvest pass
\* and never reaches the except clause of scrape_group.
C9_RegionFailureSkipped ==
    ~(caught /\ fault \in {"inner_text", "permalink", "comments"})

\* C10: a run without exception in which container extraction and
\* permalink-only extraction produced no record returns exactly one record,
\* tagged page_fallback, with the target URL as identity.
C10_PageFallbackAlone ==
    (/\ pc = "returned" /\ ~caught
     /\ Tags(completed) \cap {"container_post", "permalink_fallback"} = {})
        => /\ Len(result) = 1
           /\ result[1].source_type = "page_fallback"
           /\ result[1].url = target_url

\* A run over a page that shows a noise node only went through its cycles
\* and returned the page-level record.
C10_Witness ==
    /\ pc = "returned" /\ ~caught
    /\ window.lo <= window.hi
    /\ cycle >= 3
    /\ Tags(result) = {"page_fallback"}

\* C11: in the finalizing phase the last container harvest always follows the
\* cycle loop; the permalink-only extraction follows it if and only if the
\* list then holds at most one record; the page-level extraction follows
\* that if and only if the list is still empty; and an emergency_fallback
\* record enters the list only when the list is empty.
C11_FinalizingOrder ==
    [][/\ (InCycle /\ ~InCycle' /\ ~caught') => pc' = "final_harvest"
       /\ (pc' = "permalinks" /\ pc # "permalinks") => pc = "final_harvest"
       /\ (pc = "final_harvest" /\ pc' # pc /\ ~caught')
              => (pc' = "permalinks" <=> Len(collected') <= 1)
       /\ (pc' = "page_fallback" /\ pc # "page_fallback") => pc = "permalinks"
       /\ (pc = "permalinks" /\ pc' # pc /\ ~caught')
              => (pc' = "page_fallback" <=> collected' = <<>>)
       /\ ("emergency_fallback" \in Tags(collected') \ Tags(collected))
              => /\ collected = <<>>
                 /\ Len(collected') = 1
                 /\ caught' \/ pc' = "returned"
      ]_vars

\* The last harvest left one container record in the list and the
\* permalink-only extraction, which ran for that reason, added a record.
C11_Witness ==
    /\ pc = "close_context" /\ ~caught
    /\ Len(collected) = 2
    /\ collected[1].source_type = "container_post"
    /\ collected[2].source_type = "permalink_fallback"

\* C16: with a callback, the callback was invoked exactly once for every
\* record of the returned list, in the order of that list, and for nothing
\* else.
C16_CallbackOncePerReturnedRecord ==
    (pc = "returned" /\ persist_cb) => calls = result

\* C20: every container_post record has comment_count equal to the length
\* of its comments list, when it is passed to the callback, in the run's
\* list and in the returned list.
C20_CommentCountIsLength ==
    \A list \in {calls, collected, result, completed} :
        \A i \in 1..Len(list) :
            list[i].source_type = "container_post"
                => list[i].comment_count = Len(list[i].comments)

\* A container record with a comment was passed to the callback and is in
\* the returned list.
C20_Witness ==
    /\ pc = "returned" /\ persist_cb
    /\ \E i \in 1..Len(result), j \in 1..Len(calls) :
          /\ result[i] = calls[j]
          /\ result[i].source_type = "container_post"
          /\ result[i].comments # <<>>

\* The identity was synthesized: no permalink resolved for the region.
Synthetic(r) == r.source_type = "container_post" /\ r.url.fragment # <<>>

\* C22: the synthetic identity of a record is the base without its trailing
\* slash followed by #content- and the digest of (base URL, trimmed raw text,
\* positional index), and no two records emitted in a run carry the same
\* synthetic identity: the same content at the same position is emitted once.
C22_SyntheticIdentity ==
    \A i \in 1..Len(completed) :
        LET r == completed[i]
        IN  Synthetic(r) =>
              /\ r.url.scheme = target_url.scheme /\ r.url.netloc = target_url.netloc
              /\ r.url.path = RStrip(target_url.path, {"/"}) /\ r.url.query = <<>>
              /\ Len(r.url.fragment) = 2 /\ r.url.fragment[1] = "#content-"
              /\ r.url.fragment[2][1] = target_url
              /\ r.url.fragment[2][2] = r.raw_text /\ r.raw_text = Strip(r.raw_text)
              /\ r.url.fragment[2][3] \in 0..(Len(Feed) - 1)
              /\ \A j \in 1..Len(completed) :
                    (/\ Synthetic(completed[j])
                     /\ completed[j].raw_text = r.raw_text
                     /\ completed[j].url.fragment[2][3] = r.url.fragment[2][3]) => j = i

\* The post without a permalink was alone in the rendered window from the
\* first cycle on, was met at position 0 by several passes and under two
\* signatures, and was returned once, under its synthetic identity.
C22_Witness ==
    /\ pc = "returned" /\ ~caught
    /\ window = [lo |-> 3, hi |-> 3] /\ last_change = 1
    /\ cycle >= 2 /\ passes >= 5
    /\ Cardinality({i \in 1..Len(result) : result[i].raw_text = Strip(TextB)}) = 1
    /\ \E i \in 1..Len(result) :
          /\ Synthetic(result[i])
          /\ result[i].url.fragment[2] = <<target_url, Strip(TextB), 0>>

\* The calls of one cycle, in order.
CycleCalls == <<"container", "click", "scroll", "settle", "container">>

\* A cycle has just ended: the loop is about to begin the next one or has
\* been left.
CycleEnded == pc \in {"harvest1", "final_harvest"} /\ cycle >= 1

\* The loop of scrape_group has ended without an exception.
LoopEnded ==
    \/ cycle >= max_cycles
    \/ cycle >= min_cycles /\ no_growth_cycles >= STALL_THRESHOLD

Count(list, tag) == Cardinality({i \in 1..Len(list) : list[i] = tag})

\* C23 as claimed: every cycle invokes container extraction and
\* permalink-only extraction.
C23_EveryCycleInvokesBoth ==
    CycleEnded => Count(steps, "container") >= 1 /\ Count(steps, "permalinks") >= 1

\* C23 as amended: every cycle invokes container extraction, before the
\* scroll and after the settling, and no other strategy; permalink-only
\* extraction is invoked only after the loop has ended, when at most one
\* record was collected; the page-level strategy only after the loop has
\* ended, when nothing was collected; the emergency placeholder is built
\* only when nothing was collected and the loop is over.
C23_OnlyContainerPerCycle ==
    [][/\ CycleEnded' =>
            /\ Count(steps', "container") = 2
            /\ Count(steps', "permalinks") = 0 /\ Count(steps', "page_level") = 0
            /\ Tags(collected') \subseteq {"container_post"}
       /\ Count(steps', "permalinks") > Count(steps, "permalinks") =>
            LoopEnded /\ Len(collected) <= 1
       /\ Count(steps', "page_level") > Count(steps, "page_level") =>
            LoopEnded /\ collected = <<>>
       /\ EmergencyCount(collected') > EmergencyCount(collected) =>
            collected = <<>> /\ ~InCycle']_vars

\* After two cycles or more that collected nothing, the run went through
\* the whole cascade after its loop and returned the page-level record.
C23_Witness ==
    /\ pc = "returned" /\ ~caught
    /\ cycle >= 2
    /\ steps = <<"container", "permalinks", "page_level">>
    /\ Tags(result) = {"page_fallback"}

\* C24: within a cycle the calls are made in the order container harvest,
\* click on the expansion controls, scroll, wait for the feed to settle,
\* container harvest; a run without exception that executes c cycles makes
\* 2c + 1 container harvest passes.
C24_CycleOrderAndPasses ==
    /\ pc = "click" => steps = SubSeq(CycleCalls, 1, 1)
    /\ pc = "scroll" => steps = SubSeq(CycleCalls, 1, 2)
    /\ pc = "settle" => steps = SubSeq(CycleCalls, 1, 3)
    /\ pc = "harvest2" => steps = SubSeq(CycleCalls, 1, 4)
    /\ CycleEnded => steps = CycleCalls
    /\ (pc = "returned" /\ ~caught) => passes = 2 * cycle + 1

\* A run without exception of six cycles returned after thirteen passes.
C24_Witness ==
    /\ pc = "returned" /\ ~caught
    /\ cycle = 6 /\ passes = 13

GotoSteps == {"goto1", "goto2", "goto3"}

\* C26: the second tier is tried only after the first failed, the third only
\* after the second failed, the tier that succeeds is the last one tried, and
\* a run makes at most three navigation attempts.
C26_TiersInOrder ==
    [][/\ (pc' = "goto2" /\ pc # "goto2") => pc = "goto1" /\ nav_attempts' = 1
       /\ (pc' = "goto3" /\ pc # "goto3") => pc = "goto2" /\ nav_attempts' = 2
       /\ nav_attempts' # nav_attempts =>
            pc \in GotoSteps /\ nav_attempts' = nav_attempts + 1 /\ nav_attempts' <= 3
       /\ (pc \in GotoSteps /\ pc' \notin GotoSteps) => nav_attempts' \in 1..3]_vars

\* The third tier succeeded: the loop begins after three attempts.
C26_Witness ==
    /\ pc = "harvest1" /\ cycle = 0
    /\ nav_attempts = 3

\* C27: the counter is 0 until the first cycle ends; a cycle at whose end the
\* ledger is larger than it was at its start sets it to 0, any other cycle
\* adds exactly 1 to it, and nothing else changes it.
C27_NoGrowthCounter ==
    [][/\ cycle = 0 => no_growth_cycles = 0
       /\ cycle' = cycle + 1 =>
            no_growth_cycles' = IF Cardinality(seen_urls') > ledger_at_start THEN 0
                                ELSE no_growth_cycles + 1
       /\ no_growth_cycles' # no_growth_cycles => cycle' = cycle + 1]_vars

\* The first cycle filled the ledger, the two after it added nothing.
C27_Witness ==
    /\ pc = "harvest1"
    /\ cycle = 3 /\ no_growth_cycles = 2
    /\ seen_urls # {}

\* C35: a record tagged page_fallback or emergency_fallback is the only
\* record of the list scrape_group returns.
C35_FallbackRecordIsSole ==
    pc = "returned" =>
        \A i \in 1..Len(result) :
            result[i].source_type \in {"page_fallback", "emergency_fallback"}
                => Len(result) = 1

\* The callback raised for the page-level record: the except clause found the
\* record in the list and added no placeholder to it.
C35_Witness ==
    /\ pc = "returned" /\ caught /\ fault = "callback"
    /\ Len(result) = 1
    /\ result[1].source_type = "page_fallback"

\* The positional index in the seed of a synthetic identity.
SeedIndex(r) == r.url.fragment[2][3]

\* C36 as stated: no two records emitted in a run are records of the same
\* post without a permalink.
C36_EmittedAtMostOnce ==
    \A i, j \in 1..Len(completed) :
        (/\ Synthetic(completed[i]) /\ Synthetic(completed[j])
         /\ completed[i].raw_text = completed[j].raw_text) => i = j

\* C36: a harvest pass emits a post without a permalink only under a
\* synthetic identity that is not yet in the ledger, and at an index at which
\* no record of its text was emitted before; when the pass has returned, the
\* ledger holds the identity of (base URL, text, index) for every index at
\* which a signature presented the post: the post is suppressed at an index
\* it was met at, and is a new identity at any other.
C36_EmittedOncePerIndex ==
    [][passes' = passes + 1 =>
          /\ \A k \in (Len(completed) + 1)..Len(completed') :
                Synthetic(completed'[k]) =>
                    /\ completed'[k].url \notin seen_urls
                    /\ \A j \in 1..Len(completed') :
                          (/\ j # k /\ Synthetic(completed'[j])
                           /\ completed'[j].raw_text = completed'[k].raw_text)
                              => SeedIndex(completed'[j]) # SeedIndex(completed'[k])
          /\ ~caught' =>
                \A sig \in 1..3 : \A idx \in 0..(Len(Locate(window, sig)) - 1) :
                    LET container == Locate(window, sig)[idx + 1]
                        raw_text == Strip(container.text)
                    IN  (/\ Len(raw_text) >= MIN_TEXT_LEN
                         /\ ~_extract_permalink(container, target_url)[1])
                            => \E u \in seen_urls' :
                                  u.fragment = <<"#content-", <<target_url, raw_text, idx>>>>]_vars

\* The post without a permalink was returned twice, once for index 0 and
\* once for index 1.
C36_Witness ==
    /\ pc = "returned" /\ ~caught
    /\ \E i, j \in 1..Len(result) :
          /\ Synthetic(result[i]) /\ Synthetic(result[j])
          /\ result[i].raw_text = Strip(TextB) /\ result[j].raw_text = Strip(TextB)
          /\ SeedIndex(result[i]) = 0 /\ SeedIndex(result[j]) = 1

\* The identity URLs of the container_post and permalink_fallback records of
\* a list.
Identities(list) ==
    {list[i].url : i \in {k \in 1..Len(list) :
                             list[k].source_type \in {"container_post",
                                                       "permalink_fallback"}}}

\* C37: the ledger of a run starts empty, only grows, and when the run
\* returns it is the set of identity URLs of the container_post and
\* permalink_fallback records of the returned list.
C37_LedgerIsReturnedIdentities ==
    /\ seen_urls = {}
    /\ [][seen_urls \subseteq seen_urls']_vars
    /\ [](pc = "returned" => seen_urls = Identities(result))

---------------------------------------------------------------------------
(* Properties of _run_multi_scrape_sync *)

\* The task of input URL t, run alone with the same page behaviour, from
\* the state x on: it passes through the state r.
RECURSIVE AlonePathHas(_, _, _, _)
AlonePathHas(x, r, url, b) ==
    \/ x = r
    \/ /\ x.pc # "done"
       /\ Bind(scrape_one(x, url, b), LAMBDA y : AlonePathHas(y, r, url, b))

\* The state in which the task ends when it runs alone from the state x on.
RECURSIVE AloneFrom(_, _, _)
AloneFrom(x, url, b) ==
    IF x.pc = "done" THEN x
    ELSE Bind(scrape_one(x, url, b), LAMBDA y : AloneFrom(y, url, b))

AloneRows(t) == AloneFrom(TaskStart, urls[t], pages[t]).rows

Done(t) == tasks[t].pc = "done"

\* An exception leaves the scrape_group call of task t.
Escapes(t) == pages[t].fail \in {"launch", "close"}

\* C12: when an exception has left the scrape_group call of one task, the
\* task ends with exactly one record, tagged batch_error, whose url and
\* target_url are the task's input URL; every sibling is, then and later, in
\* a state of its own run taken alone (it is neither cancelled nor changed),
\* and the batch returns only with every sibling ended.
C12_FailureBecomesBatchError ==
    \A t \in DOMAIN tasks :
        (Done(t) /\ Escapes(t)) =>
            /\ Len(tasks[t].rows) = 1
            /\ tasks[t].rows[1].source_type = "batch_error"
            /\ tasks[t].rows[1].url = urls[t]
            /\ tasks[t].rows[1].target_url = urls[t]
            /\ \A u \in DOMAIN tasks \ {t} :
                  /\ AlonePathHas(TaskStart, tasks[u], urls[u], pages[u])
                  /\ batch_pc = "returned" => Done(u) /\ tasks[u].rows # <<>>

\* The first task failed at launch and ended while both siblings were still
\* running; the batch then returned, with records of the siblings.
C12_Witness ==
    /\ batch_pc = "returned"
    /\ pages[1].fail = "launch"
    /\ merged[1].source_type = "batch_error"
    /\ Len(merged) >= 4

Concat(ts) == Flatten([t \in 1..Len(ts) |-> ts[t].rows])

UrlIndex(u) == CHOOSE t \in DOMAIN urls : urls[t] = u

\* C14: the batch returns only when every task has ended; the merged list
\* holds the records of every task, task after task in input order.
C14_ReturnsAfterEveryTask ==
    batch_pc = "returned" =>
        /\ \A t \in DOMAIN tasks : Done(t) /\ tasks[t].rows # <<>>
        /\ merged = Concat(tasks)
        /\ \A i, j \in 1..Len(merged) :
              i < j => UrlIndex(merged[i].target_url) <= UrlIndex(merged[j].target_url)
        /\ \A t \in DOMAIN tasks : \E i \in 1..Len(merged) : merged[i].target_url = urls[t]

\* The batch returned after a failure of its second task, with the records
\* of the third task behind the failure record.
C14_Witness ==
    /\ batch_pc = "returned"
    /\ \E i \in 2..(Len(merged) - 1) :
          /\ merged[i].source_type = "batch_error"
          /\ merged[i].target_url = urls[2]
          /\ merged[i + 1].target_url = urls[3]
          /\ merged[i - 1].target_url = urls[1]

\* C15: whatever the interleaving, the records a task ends with are those
\* of its run taken alone on the same page behaviour, and so is its ledger.
C15_RunsAreIndependent ==
    \A t \in DOMAIN tasks :
        Done(t) => /\ tasks[t].rows = AloneRows(t)
                   /\ tasks[t].seen_urls = AloneFrom(TaskStart, urls[t], pages[t]).seen_urls

\* Two runs of one batch have emitted the same identity URL.
C15_Witness ==
    \E t, u \in DOMAIN tasks :
        /\ t # u /\ Done(t) /\ Done(u)
        /\ \E i \in 1..Len(tasks[t].rows), j \in 1..Len(tasks[u].rows) :
              /\ tasks[t].rows[i].url = tasks[u].rows[j].url
              /\ tasks[t].rows[i].source_type = "container_post"
              /\ tasks[u].rows[j].source_type = "container_post"

---------------------------------------------------------------------------
(* Properties of main.run *)

\* C17: when TARGET_GROUP_URL or GEMINI_KEY is missing, run() ends with an
\* error before the store is initialised, before a scrape begins and before
\* a stored post is modified, and it never completes.
C17_ConfigFailureAbortsFirst ==
    (env.TARGET_GROUP_URL = NoUrl \/ Strip(env.GEMINI_KEY) = <<>>) =>
        /\ main_pc \in {"load_env", "raised"}
        /\ main_pc = "raised" => main_error # ""
        /\ db_inits = 0
        /\ ~scrape_begun
        /\ store = store0

---------------------------------------------------------------------------
(* Properties of _normalize_facebook_url *)

AllowedKeys == {"story_fbid", "fbid", "id"}

\* The values a link carries for a key.
ValuesOf(raw, key) ==
    LET vs == QueryValues(ParseQs(UrlJoin(norm_base, raw).query), key)
    IN  {vs[i] : i \in 1..Len(vs)}

\* Both links resolve to the same scheme, host and path, up to a trailing slash.
SamePlace(a, b) ==
    LET x == UrlJoin(norm_base, a)
        y == UrlJoin(norm_base, b)
    IN  /\ x.scheme = y.scheme /\ x.netloc = y.netloc
        /\ RStrip(x.path, {"/"}) = RStrip(y.path, {"/"})

\* C18: two links that resolve to the same scheme, host and path
\* and carry the same values for the allow-listed keys get the same identity
\* string, whatever their other parameters, the order of their parameters,
\* their fragments and their trailing slashes.
C18_SameValuesSameIdentity ==
    (/\ norm_pc # "raw"
     /\ SamePlace(raw_a, raw_b)
     /\ \A k \in AllowedKeys : ValuesOf(raw_a, k) = ValuesOf(raw_b, k))
        => out_a = out_b

\* C19: normalizing an identity string again returns the same string.
C19_Idempotent ==
    norm_pc = "renormalized" => again_a = out_a

---------------------------------------------------------------------------
(* Properties of _extract_comments *)

\* C21: the returned list holds no fragment that is the text of the post or
\* a part of it, no fragment twice, no fragment of fewer than 3 characters,
\* and no more than max_comments fragments.
C21_CommentsFiltered ==
    cm_pc = "returned" =>
        /\ Len(cm_out) <= cm_max
        /\ \A i \in 1..Len(cm_out) :
              /\ cm_out[i] # cm_raw_text
              /\ ~IsSubstring(cm_out[i], cm_raw_text)
              /\ Len(cm_out[i]) >= 3
              /\ \A j \in 1..Len(cm_out) : cm_out[j] = cm_out[i] => j = i

\* Of three nodes, a part of the post body, a comment with blanks around it
\* and another comment, the two comments were returned, as many as allowed.
C21_Witness ==
    /\ cm_pc = "returned"
    /\ cm_container.comment_nodes[1] = <<Rep("a", 5)>>
    /\ cm_container.comment_nodes[4] = <<<<" ", "o", "k", "!", " ">>, <<"y", "e", "s">>>>
    /\ cm_max = 2
    /\ cm_out = <<<<"o", "k", "!">>, <<"y", "e", "s">>>>

---------------------------------------------------------------------------
(* Properties of _wait_for_feed_settle *)

\* C25 as claimed: the call ends after at most 2r polls, and before the
\* 2r-th poll only when the height of the document and the feed signal
\* count of the page were unchanged for r consecutive polls.
C25_EarlyOnlyWhenPageUnchanged ==
    /\ polls <= 2 * rounds
    /\ (settle_pc = "returned" /\ polls < 2 * rounds) => doc_stable >= rounds

\* C25 as amended: the call ends after at most 2r polls, and before the
\* 2r-th poll only when for r consecutive polls the height read and the
\* signal counted were those of the poll before, a height whose evaluation
\* failed being read as the height of the poll before and a selector whose
\* count failed adding nothing to the signal.
C25_EarlyOnlyWhenReadingsUnchanged ==
    [][polls' # polls =>
          \* after a poll last_height and last_signal are what the poll read
          LET same == last_height' = last_height /\ last_signal' = last_signal
          IN  /\ polls' = polls + 1 /\ polls' <= 2 * rounds
              /\ stable_rounds' = IF same THEN stable_rounds + 1 ELSE 0
              /\ (settle_pc' = "returned" /\ polls' < 2 * rounds) =>
                    same /\ stable_rounds' >= rounds
              /\ settle_pc' = "poll" => polls' < 2 * rounds]_vars

\* A call with rounds = 3 returned after its fourth poll.
C25_Witness ==
    /\ settle_pc = "returned"
    /\ rounds = 3 /\ polls = 4
    /\ stable_rounds = 3

---------------------------------------------------------------------------
(* Properties of _collect_from_permalink_links *)

\* C28: every record the permalink-only extraction emits comes from one of
\* the first 250 matching links, carries an identity that was not in the
\* ledger and that no other record it emits carries, is tagged
\* permalink_fallback and has no comments, a comment count of 0 and a
\* non-empty text; the identity of every record is in the ledger afterwards.
C28_PermalinkRecords ==
    link_pc \in {"returned", "raised"} =>
        /\ link_seen0 \subseteq link_out.seen_urls
        /\ \A i \in 1..Len(link_out.collected) :
              LET r == link_out.collected[i]
              IN  /\ \E k \in 1..Min(Len(link_list), MAX_LINKS) :
                        /\ link_list[k].has_href /\ link_list[k].valid
                        /\ r.url = _normalize_facebook_url(link_list[k].href, TargetUrl)
                  /\ r.url \notin link_seen0
                  /\ r.url \in link_out.seen_urls
                  /\ \A j \in 1..Len(link_out.collected) :
                        link_out.collected[j].url = r.url => j = i
                  /\ r.source_type = "permalink_fallback"
                  /\ r.comments = <<>> /\ r.comment_count = 0
                  /\ r.raw_text # <<>>

\* On a page of 251 links the call returned one record, for the post behind
\* the first 250 links, and never met the video behind the last one.
C28_Witness ==
    /\ link_pc = "returned"
    /\ Len(link_list) = MAX_LINKS + 1
    /\ link_seen0 = {}
    /\ Len(link_out.collected) = 1
    /\ link_out.collected[1].url = _normalize_facebook_url(Link7Abs, TargetUrl)
    /\ link_out.seen_urls = {_normalize_facebook_url(Link7Abs, TargetUrl)}

---------------------------------------------------------------------------
(* Properties of the click loops *)

\* C29: a click that raises does not end the loop: the step of a click never
\* leaves the function with an exception, and after a click that raised the
\* loop goes on with the next control, the next selector or the return; no
\* more controls are clicked per selector than 3 in _extract_comments and 8
\* in _click_expand_controls.
C29_FailedClickSkipped ==
    [][/\ click_pc = "click" =>
            /\ click_pc' \in {"click", "count", "returned"}
            /\ click_i' = click_i + 1
            /\ click_attempts'[click_sel] = click_attempts[click_sel] + 1
       /\ click_failed' # click_failed => click_pc = "click" /\ click_failed' = click_failed + 1
       /\ \A sel \in DOMAIN click_attempts' :
            /\ click_attempts'[sel] <= click_limit
            /\ click_attempts'[sel] <= click_buttons[sel]
       /\ click_limit = IF Len(click_buttons) = COMMENT_EXPANDERS THEN COMMENT_CLICKS
                        ELSE PAGE_CLICKS]_vars

\* _click_expand_controls returned after every selector matched nine
\* controls and every click raised: 32 clicks, 8 per selector.
C29_Witness ==
    /\ click_pc = "returned"
    /\ click_limit = PAGE_CLICKS
    /\ \A sel \in DOMAIN click_buttons : click_buttons[sel] = 9 /\ click_attempts[sel] = 8
    /\ click_failed = 32

---------------------------------------------------------------------------
(* Properties of _capture_facebook_storage_state *)

\* C30: the session state is saved only after a poll made before the
\* deadline found the c_user cookie of a facebook.com domain; a capture that
\* ends without such a poll has saved nothing, closed the browser and raised
\* the timeout error; once a poll found the cookie no other poll is made.
C30_SavedOnlyAfterLoginSignal ==
    /\ saved => signal_seen
    /\ (login_pc \in {"returned", "raised"} /\ ~signal_seen) =>
          /\ ~saved
          /\ login_browser = "closed"
          /\ login_pc = "raised" /\ login_error = TimeoutMessage
    /\ signal_seen => login_pc \in {"after", "close", "returned"}

---------------------------------------------------------------------------
(* Properties of process_pending_posts *)

Fetched == {proc_pending[i]._id : i \in 1..Len(proc_pending)}

\* The analysis returned a result for the post.
Analysed(doc_id) ==
    /\ proc_by_id # <<>>
    /\ ~proc_by_id.raised
    /\ doc_id \in DOMAIN proc_by_id.by_id

\* C31: when process_pending_posts has ended, by a return or by an exception,
\* each fetched post was marked exactly once, processed when the analysis
\* returned a result for its id and error otherwise, and a call that returns
\* returns the number of posts fetched.
C31_EachPostMarkedOnce ==
    proc_pc \in {"returned", "raised"} =>
        /\ \A id \in Fetched :
              proc_marks[id] = <<IF Analysed(id) THEN "processed" ELSE "error">>
        /\ proc_pc = "returned" => proc_ret = Len(proc_pending)

---------------------------------------------------------------------------
(* Properties of analyze_posts_with_gemini *)

\* C32: the model is called at most five times; the waits are 2, 4, 8, 16
\* seconds, one after each call that raised a rate-limit error and is not
\* the fifth, and every call but the first follows such a wait; an error
\* that is not a rate-limit error, and a rate-limit error of the fifth call,
\* leave the function as they were raised, with no call after them.
C32_RetriesOnlyOnRateLimit ==
    /\ gem_calls <= 5
    /\ gem_waits = SubSeq(<<2, 4, 8, 16>>, 1, Len(gem_waits))
    /\ \A k \in 1..Len(gem_waits) : gem_errors[k] \in RateLimitMessages
    /\ gem_calls \in {Len(gem_waits), Len(gem_waits) + 1}
    /\ (gem_calls > 0 /\ gem_calls = Len(gem_waits)) => gem_pc = "call"
    /\ gem_calls \in {Len(gem_errors), Len(gem_errors) + 1}
    /\ (gem_errors # <<>> /\ (gem_errors[Len(gem_errors)] \in OtherMessages
                               \/ Len(gem_errors) = 5))
          => /\ gem_pc = "raised"
             /\ gem_exc = gem_errors[Len(gem_errors)]
             /\ gem_calls = Len(gem_errors)
    /\ (gem_errors # <<>> /\ gem_errors[Len(gem_errors)] \in RateLimitMessages
                          /\ Len(gem_errors) < 5)
          => Len(gem_waits) = Len(gem_errors)

\* The fifth call raised a rate-limit error after four waits.
C32_Witness ==
    /\ gem_pc = "raised"
    /\ gem_calls = 5
    /\ gem_waits = <<2, 4, 8, 16>>
    /\ gem_exc \in RateLimitMessages

\* C33: every key of the returned mapping is the document id of one of the
\* input posts.
C33_KeysAreInputIds ==
    gem_pc = "returned" =>
        DOMAIN gem_out \subseteq {gem_posts[n]._id : n \in 1..Len(gem_posts)}

---------------------------------------------------------------------------
(* Properties of upsert_post *)

\* C34: a call of upsert_post with a record without URL raises and writes
\* nothing; the first call for a URL adds one document, of that URL and of
\* status pending, and changes no other; every later call for the URL
\* returns the id the first one returned and leaves the collection as it
\* was, whatever the record's other fields and the document's status.
C34_UpsertIdempotent ==
    [][(ups_ops' = ups_ops + 1 /\ ups_op'.kind = "upsert") =>
          LET url == ups_op'.post_data.url
              ret == ups_op'.ret
          IN  IF url = NoUrl
              THEN ups_op'.raised /\ ups_db' = ups_db
              ELSE /\ ~ups_op'.raised
                   /\ url \in ups_seen =>
                         /\ ret = ups_ids[url]
                         /\ ups_db' = ups_db
                   /\ url \notin ups_seen =>
                         /\ ups_ids'[url] = ret
                         /\ DOMAIN ups_db' = DOMAIN ups_db \cup {ret}
                         /\ ret \notin DOMAIN ups_db
                         /\ ups_db'[ret].url = url
                         /\ ups_db'[ret].status = "pending"
                         /\ \A id \in DOMAIN ups_db : ups_db'[id] = ups_db[id]]_vars

\* A URL was upserted again, with another text, after its document had been
\* processed.
C34_Witness ==
    /\ ups_op # <<>>
    /\ ups_op.kind = "upsert"
    /\ ups_op.repeat
    /\ ups_db[ups_op.ret].status = "processed"
    /\ ups_db[ups_op.ret].raw_text # ups_op.post_data.raw_text
    /\ ups_db[ups_op.ret].url = Url2

====
